---- MODULE Spec2Model ----
(***************************************************************************)
(* Kaik chess engine: board representation (bitboards), pseudo-legal move  *)
(* generation, board update with incremental Zobrist hashing, legality     *)
(* filter, and the alpha-beta search with its iterative-deepening driver.  *)
(*                                                                         *)
(* A bitboard (u64) is modelled as the set of its set bit positions, a     *)
(* subset of 0..63: & is \cap, | is \cup, ^ is symmetric difference, and   *)
(* shifts move every element and drop those that leave 0..63.              *)
(* A Zobrist key (u64 built by XOR of table entries) is modelled as the    *)
(* set of table entries XOR-ed an odd number of times.                     *)
(***************************************************************************)
EXTENDS Integers, Sequences, FiniteSets, TLC

\* ------------------------------------------------------------------------
\* Squares (common/squares.rs)
\* ------------------------------------------------------------------------
Squares == 0..63

\* Option::None for Option<Square> and Option<Piece>.
NoSquare == 64
NoPiece == 12

get_rank(sq) == sq \div 8
get_file(sq) == sq % 8
Square_new(rank, file) == rank * 8 + file

FileNames == <<"a", "b", "c", "d", "e", "f", "g", "h">>
RankNames == <<"1", "2", "3", "4", "5", "6", "7", "8">>

\* impl Display for Square
SquareName(sq) == FileNames[get_file(sq) + 1] \o RankNames[get_rank(sq) + 1]

\* impl TryFrom<&str> for Square
SQ(name) == CHOOSE sq \in Squares : SquareName(sq) = name

A1 == 0
C1 == 2
D1 == 3
E1 == 4
F1 == 5
G1 == 6
H1 == 7
A8 == 56
C8 == 58
D8 == 59
E8 == 60
F8 == 61
G8 == 62
H8 == 63

\* ------------------------------------------------------------------------
\* Colors and pieces (common/colors.rs, common/pieces.rs)
\* ------------------------------------------------------------------------
White == 0
Black == 1
opposite(color) == 1 - color

WhitePawn == 0
BlackPawn == 1
WhiteKnight == 2
BlackKnight == 3
WhiteBishop == 4
BlackBishop == 5
WhiteRook == 6
BlackRook == 7
WhiteQueen == 8
BlackQueen == 9
WhiteKing == 10
BlackKing == 11

ALL_PIECES == <<WhitePawn, BlackPawn, WhiteKnight, BlackKnight, WhiteBishop, BlackBishop,
                WhiteRook, BlackRook, WhiteQueen, BlackQueen, WhiteKing, BlackKing>>

PieceIdx == 0..11

PROMOTION_PIECES == << <<WhiteQueen, WhiteKnight, WhiteRook, WhiteBishop>>,
                       <<BlackQueen, BlackKnight, BlackRook, BlackBishop>> >>

get_color(piece) == piece % 2
is_pawn(piece) == piece \in {WhitePawn, BlackPawn}
is_king(piece) == piece \in {WhiteKing, BlackKing}
get_pawn_of(color) == IF color = White THEN WhitePawn ELSE BlackPawn
get_knight_of(color) == IF color = White THEN WhiteKnight ELSE BlackKnight
get_bishop_of(color) == IF color = White THEN WhiteBishop ELSE BlackBishop
get_rook_of(color) == IF color = White THEN WhiteRook ELSE BlackRook
get_queen_of(color) == IF color = White THEN WhiteQueen ELSE BlackQueen
get_king_of(color) == IF color = White THEN WhiteKing ELSE BlackKing

\* ------------------------------------------------------------------------
\* Bitboard primitives (bitboard/bitboard_type.rs)
\* ------------------------------------------------------------------------
EMPTY == {}
BitAnd(a, b) == a \cap b
BitOr(a, b) == a \cup b
BitXor(a, b) == (a \ b) \cup (b \ a)
BitNot(a) == Squares \ a
Shl(bb, n) == {s + n : s \in bb} \cap Squares
Shr(bb, n) == {s - n : s \in bb} \cap Squares

from_square(sq) == {sq}

\* trailing_zeros: 64 for the empty bitboard.
get_index(bb) == IF bb = {} THEN NoSquare ELSE CHOOSE s \in bb : \A t \in bb : s <= t

\* BitBoardIterator: yields the set bits from the least significant one up.
into_iter(bb) ==
    LET n == Cardinality(bb)
    IN  [i \in 1..n |-> CHOOSE s \in bb : Cardinality({t \in bb : t < s}) = i - 1]

RECURSIVE FlattenSeq(_)
FlattenSeq(ss) == IF ss = <<>> THEN <<>> ELSE Head(ss) \o FlattenSeq(Tail(ss))

SeqRange(s) == {s[i] : i \in 1..Len(s)}

\* ------------------------------------------------------------------------
\* Bitboard constants (board/bitboard/constants.rs)
\* ------------------------------------------------------------------------
NOT_A_FILE == {s \in Squares : get_file(s) # 0}
NOT_H_FILE == {s \in Squares : get_file(s) # 7}
NOT_HG_FILE == {s \in Squares : get_file(s) \in 0..5}
NOT_AB_FILE == {s \in Squares : get_file(s) \in 2..7}
MASK_RANK_3 == 16..23
MASK_RANK_6 == 40..47

CASTLING_KING_SIDE_MASKS == << {5, 6}, {61, 62} >>
CASTLING_QUEEN_SIDE_MASKS == << {1, 2, 3}, {57, 58, 59} >>

INITIAL_BOARD ==
    [p \in PieceIdx |->
        CASE p = WhitePawn   -> 8..15
          [] p = BlackPawn   -> 48..55
          [] p = WhiteKnight -> {1, 6}
          [] p = BlackKnight -> {57, 62}
          [] p = WhiteBishop -> {2, 5}
          [] p = BlackBishop -> {58, 61}
          [] p = WhiteRook   -> {0, 7}
          [] p = BlackRook   -> {56, 63}
          [] p = WhiteQueen  -> {3}
          [] p = BlackQueen  -> {59}
          [] p = WhiteKing   -> {4}
          [] p = BlackKing   -> {60}]

\* ------------------------------------------------------------------------
\* Non-sliding attacks (bitboard/movements.rs)
\* ------------------------------------------------------------------------
get_king_attacks(king_pos) ==
    LET king_clip_file_h == BitAnd(king_pos, NOT_H_FILE)
        king_clip_file_a == BitAnd(king_pos, NOT_A_FILE)
    IN  Shl(king_clip_file_a, 7) \cup Shl(king_pos, 8) \cup Shl(king_clip_file_h, 9)
        \cup Shl(king_clip_file_h, 1) \cup Shr(king_clip_file_h, 7) \cup Shr(king_pos, 8)
        \cup Shr(king_clip_file_a, 9) \cup Shr(king_clip_file_a, 1)

get_king_moves(king_pos, own_pieces) == BitAnd(get_king_attacks(king_pos), BitNot(own_pieces))

\* Variant of get_knight_attacks that clips one file where two are needed.
get_knight_attacks_one_file_clip(knights_pos) ==
    LET knight_clip_file_a == BitAnd(knights_pos, NOT_A_FILE)
        knight_clip_file_h == BitAnd(knights_pos, NOT_H_FILE)
    IN  Shl(knight_clip_file_a, 6) \cup Shl(knight_clip_file_a, 15)
        \cup Shl(knight_clip_file_h, 17) \cup Shl(knight_clip_file_h, 10)
        \cup Shr(knight_clip_file_h, 6) \cup Shr(knight_clip_file_h, 15)
        \cup Shr(knight_clip_file_a, 17) \cup Shr(knight_clip_file_a, 10)

get_knight_attacks(knights_pos) ==
    LET knight_clip_file_ab == BitAnd(knights_pos, NOT_AB_FILE)
        knight_clip_file_a == BitAnd(knights_pos, NOT_A_FILE)
        knight_clip_file_h == BitAnd(knights_pos, NOT_H_FILE)
        knight_clip_file_hg == BitAnd(knights_pos, NOT_HG_FILE)
    IN  Shl(knight_clip_file_ab, 6) \cup Shl(knight_clip_file_a, 15)
        \cup Shl(knight_clip_file_h, 17) \cup Shl(knight_clip_file_hg, 10)
        \cup Shr(knight_clip_file_hg, 6) \cup Shr(knight_clip_file_h, 15)
        \cup Shr(knight_clip_file_a, 17) \cup Shr(knight_clip_file_ab, 10)

get_knight_moves(knights_pos, own_pieces) ==
    BitAnd(get_knight_attacks(knights_pos), BitNot(own_pieces))

get_white_pawn_attacks(pawns_pos) ==
    Shl(BitAnd(pawns_pos, NOT_A_FILE), 7) \cup Shl(BitAnd(pawns_pos, NOT_H_FILE), 9)

get_valid_white_pawn_attacks(pawns_pos, all_other_pieces) ==
    BitAnd(get_white_pawn_attacks(pawns_pos), all_other_pieces)

get_white_pawn_moves(pawns_pos, all_pieces, all_other_pieces) ==
    LET pawn_one_step == BitAnd(Shl(pawns_pos, 8), BitNot(all_pieces))
        pawn_two_steps == BitAnd(Shl(BitAnd(pawn_one_step, MASK_RANK_3), 8), BitNot(all_pieces))
    IN  pawn_one_step \cup pawn_two_steps
        \cup get_valid_white_pawn_attacks(pawns_pos, all_other_pieces)

get_black_pawn_attacks(pawns_pos) ==
    Shr(BitAnd(pawns_pos, NOT_A_FILE), 9) \cup Shr(BitAnd(pawns_pos, NOT_H_FILE), 7)

get_valid_black_pawn_attacks(pawns_pos, all_other_pieces) ==
    BitAnd(get_black_pawn_attacks(pawns_pos), all_other_pieces)

get_black_pawn_moves(pawns_pos, all_pieces, all_other_pieces) ==
    LET pawn_one_step == BitAnd(Shr(pawns_pos, 8), BitNot(all_pieces))
        pawn_two_steps == BitAnd(Shr(BitAnd(pawn_one_step, MASK_RANK_6), 8), BitNot(all_pieces))
    IN  pawn_one_step \cup pawn_two_steps
        \cup get_valid_black_pawn_attacks(pawns_pos, all_other_pieces)

\* ------------------------------------------------------------------------
\* Sliding attacks, Hyperbola Quintessence (bitboard/sliding_pieces_with_hq.rs)
\* ------------------------------------------------------------------------
MAIN_DIAG == {Square_new(i, i) : i \in 0..7}
MAIN_ANTI_DIAG == {Square_new(i, 7 - i) : i \in 0..7}

rank_mask(sq) == Shl(0..7, 8 * get_rank(sq))
file_mask(sq) == Shl({Square_new(i, 0) : i \in 0..7}, get_file(sq))

diagonal_mask(sq) ==
    LET diag == get_file(sq) - get_rank(sq)
    IN  IF diag >= 0 THEN Shr(MAIN_DIAG, diag * 8) ELSE Shl(MAIN_DIAG, (-diag) * 8)

anti_diagonal_mask(sq) ==
    LET diag == 7 - get_file(sq) - get_rank(sq)
    IN  IF diag >= 0 THEN Shr(MAIN_ANTI_DIAG, diag * 8) ELSE Shl(MAIN_ANTI_DIAG, (-diag) * 8)

rank_mask_ex(sq) == BitXor({sq}, rank_mask(sq))
file_mask_ex(sq) == BitXor({sq}, file_mask(sq))
diagonal_mask_ex(sq) == BitXor({sq}, diagonal_mask(sq))
anti_diagonal_mask_ex(sq) == BitXor({sq}, anti_diagonal_mask(sq))

\* u64::swap_bytes: byte r (rank r) goes to byte 7 - r.
swap_bytes(bb) == {Square_new(7 - get_rank(s), get_file(s)) : s \in bb}

\* x.wrapping_sub(1 << k) on 64 bits: the borrow runs from bit k up to the
\* lowest set bit of x at or above k, or off the top when there is none.
wrapping_sub_bit(x, k) ==
    LET hi == {j \in x : j >= k}
    IN  IF hi = {} THEN x \cup (k..63)
        ELSE LET j == get_index(hi) IN (x \ {j}) \cup (k..(j - 1))

line_attacks(occ, sq, mask) ==
    LET forward0 == BitAnd(occ, mask)
        reverse0 == swap_bytes(forward0)
        forward1 == wrapping_sub_bit(forward0, sq)
        reverse1 == wrapping_sub_bit(reverse0, get_index(swap_bytes({sq})))
        forward2 == BitXor(forward1, swap_bytes(reverse1))
    IN  BitAnd(forward2, mask)

diagonal_attacks(occ, sq) == line_attacks(occ, sq, diagonal_mask_ex(sq))
anti_diagonal_attacks(occ, sq) == line_attacks(occ, sq, anti_diagonal_mask_ex(sq))
file_attacks(occ, sq) == line_attacks(occ, sq, file_mask_ex(sq))

\* Variant of generate_rank_attack_mask that stops before the first occupied
\* bit instead of on it.
generate_rank_attack_mask_empty_only(occ, file) ==
    {x \in 0..7 : x < file /\ \A y \in x..(file - 1) : y \notin occ}
    \cup {x \in 0..7 : x > file /\ \A y \in (file + 1)..x : y \notin occ}

\* Scans the first rank outward from `file`, both ways, up to and including the
\* first occupied bit. occ and the result are bitboards of the first rank.
generate_rank_attack_mask(occ, file) ==
    {x \in 0..7 : x < file /\ \A y \in (x + 1)..(file - 1) : y \notin occ}
    \cup {x \in 0..7 : x > file /\ \A y \in (file + 1)..(x - 1) : y \notin occ}

\* The 512-entry table is indexed by 8 * (inner six bits of the rank occupancy)
\* + file, and its entry is generate_rank_attack_mask(2 * inner six bits, file).
rank_attacks(occ, sq) ==
    LET file == get_file(sq)
        rkx8 == 8 * get_rank(sq)
        rank_occ_x2 == BitAnd(Shr(occ, rkx8), 1..6)
    IN  Shl(generate_rank_attack_mask(rank_occ_x2, file), rkx8)

hq_get_rook_attacks(occ, sq) == file_attacks(occ, sq) \cup rank_attacks(occ, sq)
hq_get_bishop_attacks(occ, sq) == diagonal_attacks(occ, sq) \cup anti_diagonal_attacks(occ, sq)
hq_get_queen_attacks(occ, sq) == hq_get_rook_attacks(occ, sq) \cup hq_get_bishop_attacks(occ, sq)

\* bitboard/movements.rs wrappers: the piece bitboard holds one bit.
get_bishop_attacks(bishops_pos, all_pieces) == hq_get_bishop_attacks(all_pieces, get_index(bishops_pos))
get_rook_attacks(rooks_pos, all_pieces) == hq_get_rook_attacks(all_pieces, get_index(rooks_pos))

get_bishop_moves(bishops_pos, all_pieces, own_pieces) ==
    BitAnd(hq_get_bishop_attacks(all_pieces, get_index(bishops_pos)), BitNot(own_pieces))
get_rook_moves(rooks_pos, all_pieces, own_pieces) ==
    BitAnd(hq_get_rook_attacks(all_pieces, get_index(rooks_pos)), BitNot(own_pieces))
get_queen_moves(queens_pos, all_pieces, own_pieces) ==
    BitAnd(hq_get_queen_attacks(all_pieces, get_index(queens_pos)), BitNot(own_pieces))

\* movements::can_castle_king_side / can_castle_queen_side: the squares between
\* king and rook are empty.
mv_can_castle_king_side(occupied, color) ==
    BitAnd(occupied, CASTLING_KING_SIDE_MASKS[color + 1]) = EMPTY
mv_can_castle_queen_side(occupied, color) ==
    BitAnd(occupied, CASTLING_QUEEN_SIDE_MASKS[color + 1]) = EMPTY

\* Square::is_promotion_rank_for
is_promotion_rank_for(sq, color) ==
    IF color = White THEN get_rank(sq) = 7 ELSE get_rank(sq) = 0

\* ------------------------------------------------------------------------
\* Castling ability, a 4-bit word (board/castling.rs)
\* ------------------------------------------------------------------------
CASTLING_ALL == 15
CASTLING_NONE == 0

\* a & b on castling words.
RECURSIVE AndBits(_, _)
AndBits(a, b) ==
    IF a = 0 \/ b = 0 THEN 0
    ELSE (a % 2) * (b % 2) + 2 * AndBits(a \div 2, b \div 2)

get_mask_for_piece(piece) ==
    CASE piece = WhiteKing  -> 1
      [] piece = WhiteQueen -> 2
      [] piece = BlackKing  -> 4
      [] piece = BlackQueen -> 8

\* CastlingAbility::new: the OR of the masks of the listed pieces.
RECURSIVE CastlingAbility_new(_)
CastlingAbility_new(pieces) ==
    IF pieces = <<>> THEN 0
    ELSE LET m == get_mask_for_piece(Head(pieces))
             rest == CastlingAbility_new(Tail(pieces))
         IN  rest + m - AndBits(rest, m)

ca_can_castle_king_side(ca, color) == AndBits(ca, IF color = White THEN 1 ELSE 4) # 0
ca_can_castle_queen_side(ca, color) == AndBits(ca, IF color = White THEN 2 ELSE 8) # 0

\* Variant of UPDATE_ARRAY whose H8 entry keeps the black king-side right.
UPDATE_ARRAY_h8_kept(sq) ==
    CASE sq = A1 -> 13
      [] sq = E1 -> 12
      [] sq = H1 -> 14
      [] sq = A8 -> 7
      [] sq = E8 -> 3
      [] OTHER -> 15

UPDATE_ARRAY(sq) ==
    CASE sq = A1 -> 13
      [] sq = E1 -> 12
      [] sq = H1 -> 14
      [] sq = A8 -> 7
      [] sq = E8 -> 3
      [] sq = H8 -> 11
      [] OTHER -> 15

ca_clear(ca, sq) == AndBits(ca, UPDATE_ARRAY(sq))

\* ------------------------------------------------------------------------
\* Zobrist keys (board/zobrist.rs). A key is the index of its table entry in
\* the order Keys::init draws them; a hash is the set of entries XOR-ed in.
\* ------------------------------------------------------------------------
piece_key(square, piece) == square * 12 + piece
color_key(color) == 768 + color
castling_key(castling) == 770 + castling
en_passant_key(en_passant_square) ==
    IF en_passant_square # NoSquare THEN 786 + get_file(en_passant_square) ELSE 794

KeyXor(key, k) == BitXor(key, {k})

gen_zobrist_key(board) ==
    LET piece_keys == {piece_key(sq, p) : <<sq, p>> \in
                          {<<s, q>> \in Squares \X PieceIdx : s \in board.pieces[q]}}
        \* Two pieces on one square XOR two different entries; the same entry is
        \* never XOR-ed twice by the loop, so the XOR is the union.
    IN  KeyXor(KeyXor(KeyXor(piece_keys, color_key(board.side_to_move)),
                      castling_key(board.castling_ability)),
               en_passant_key(board.en_passant_target_square))

\* ------------------------------------------------------------------------
\* Moves (common/moves.rs)
\* ------------------------------------------------------------------------
Move_new(from, to, promotion, piece, is_capture) ==
    [from |-> from, to |-> to, promotion |-> promotion, piece |-> piece,
     is_capture |-> is_capture]

Move_quiet(from, to, piece) == Move_new(from, to, NoPiece, piece, FALSE)
Move_capture(from, to, piece) == Move_new(from, to, NoPiece, piece, TRUE)

NoMove == Move_new(NoSquare, NoSquare, NoPiece, NoPiece, FALSE)

abs_diff(a, b) == IF a >= b THEN a - b ELSE b - a

\* Variant of is_pawn_double_push that does not look at the moving piece.
is_pawn_double_push_any_piece(mv) ==
    abs_diff(get_rank(mv.from), get_rank(mv.to)) = 2

is_pawn_double_push(mv) ==
    is_pawn(mv.piece) /\ abs_diff(get_rank(mv.from), get_rank(mv.to)) = 2

get_en_passant_target_square(mv) ==
    IF is_pawn_double_push(mv)
    THEN Square_new((get_rank(mv.from) + get_rank(mv.to)) \div 2, get_file(mv.from))
    ELSE NoSquare

KING_TO_KING_SIDE_CASTLING ==
    << Move_quiet(E1, G1, WhiteKing), Move_quiet(E8, G8, BlackKing) >>
KING_TO_QUEEN_SIDE_CASTLING ==
    << Move_quiet(E1, C1, WhiteKing), Move_quiet(E8, C8, BlackKing) >>

get_castling_rook_move(mv) ==
    IF is_king(mv.piece)
    THEN IF mv.from = E1
         THEN IF mv.to = G1 THEN Move_quiet(H1, F1, WhiteRook)
              ELSE IF mv.to = C1 THEN Move_quiet(A1, D1, WhiteRook)
              ELSE NoMove
         ELSE IF mv.from = E8
         THEN IF mv.to = G8 THEN Move_quiet(H8, F8, BlackRook)
              ELSE IF mv.to = C8 THEN Move_quiet(A8, D8, BlackRook)
              ELSE NoMove
         ELSE NoMove
    ELSE NoMove

\* ------------------------------------------------------------------------
\* Board (board/board_type.rs)
\* ------------------------------------------------------------------------
get_all_bitboards(pieces) ==
    [c \in {White, Black} |-> UNION {pieces[p] : p \in {q \in PieceIdx : q % 2 = c}}]

get_occupied_bitboard(all) == all[White] \cup all[Black]

\* Construction of a board from decoded FEN fields (Board::from_fen after
\* fen::parse); the Zobrist key of a new board is generated from scratch.
new_board(pieces, side_to_move, castling_ability, en_passant_target_square, half_move_clock, full_move_counter) ==
    LET all == get_all_bitboards(pieces)
        b0 == [pieces |-> pieces,
               all |-> all,
               occupied |-> get_occupied_bitboard(all),
               side_to_move |-> side_to_move,
               en_passant_target_square |-> en_passant_target_square,
               castling_ability |-> castling_ability,
               half_move_clock |-> half_move_clock,
               full_move_counter |-> full_move_counter,
               zobrist_key |-> {}]
    IN  [b0 EXCEPT !.zobrist_key = gen_zobrist_key(b0)]

initial_board == new_board(INITIAL_BOARD, White, CASTLING_ALL, NoSquare, 0, 1)

\* ------------------------------------------------------------------------
\* FEN strings (utils/fen.rs) and their use by the board
\* (board/board_type.rs). A string is the sequence of its characters. Each
\* function that may panic (failed assert, unwrap of None) comes with the
\* predicate *_panics that tells when it does; its value is then unused.
\* ------------------------------------------------------------------------
\* impl From<Piece> for char
PIECE_CHARS == <<"P", "p", "N", "n", "B", "b", "R", "r", "Q", "q", "K", "k">>
piece_to_char(piece) == PIECE_CHARS[piece + 1]

\* impl TryFrom<char> for Piece, then .ok(): NoPiece for any other character.
char_to_piece(c) ==
    IF \E p \in PieceIdx : PIECE_CHARS[p + 1] = c
    THEN CHOOSE p \in PieceIdx : PIECE_CHARS[p + 1] = c
    ELSE NoPiece

DIGIT_CHARS == <<"0", "1", "2", "3", "4", "5", "6", "7", "8", "9">>

\* char::to_digit(10) is Some: c is a decimal digit; digit_value is its value.
is_digit(c) == \E d \in 0..9 : DIGIT_CHARS[d + 1] = c
digit_value(c) == CHOOSE d \in 0..9 : DIGIT_CHARS[d + 1] = c

\* usize::to_string
RECURSIVE to_string(_)
to_string(n) ==
    IF n < 10 THEN <<DIGIT_CHARS[n + 1]>>
    ELSE to_string(n \div 10) \o <<DIGIT_CHARS[(n % 10) + 1]>>

\* str::parse::<usize>().unwrap(): panics on the empty string and on a
\* character that is not a digit.
parse_usize_panics(s) == s = <<>> \/ \E i \in 1..Len(s) : ~is_digit(s[i])

RECURSIVE parse_digits(_, _)
parse_digits(s, acc) ==
    IF s = <<>> THEN acc ELSE parse_digits(Tail(s), 10 * acc + digit_value(Head(s)))

parse_usize(s) == parse_digits(s, 0)

\* str::split(sep): the fields between the separators, empty ones included.
split(s, sep) ==
    LET at == {i \in 1..Len(s) : s[i] = sep}
        n == Cardinality(at)
        \* position of the k-th separator; 0 and Len(s) + 1 stand for the ends
        pos(k) == IF k = 0 THEN 0
                  ELSE IF k > n THEN Len(s) + 1
                  ELSE CHOOSE i \in at : Cardinality({j \in at : j < i}) = k - 1
    IN  [k \in 1..(n + 1) |-> SubSeq(s, pos(k - 1) + 1, pos(k) - 1)]

\* str::split_ascii_whitespace: the non-empty fields.
split_ascii_whitespace(s) == SelectSeq(split(s, " "), LAMBDA f : f # <<>>)

\* Itertools::join
RECURSIVE join(_, _)
join(ss, sep) ==
    IF ss = <<>> THEN <<>>
    ELSE IF Len(ss) = 1 THEN Head(ss)
    ELSE Head(ss) \o <<sep>> \o join(Tail(ss), sep)

\* create_rank: the loop over the eight squares from the i-th one, with the
\* string built so far and the count of empty squares pending.
RECURSIVE create_rank_loop(_, _, _, _)
create_rank_loop(rank, i, result, empty_count) ==
    IF i > Len(rank)
    THEN IF empty_count > 0 THEN result \o to_string(empty_count) ELSE result
    ELSE IF rank[i] # NoPiece
    THEN create_rank_loop(rank, i + 1,
                          (IF empty_count > 0 THEN result \o to_string(empty_count)
                           ELSE result) \o <<piece_to_char(rank[i])>>,
                          0)
    ELSE create_rank_loop(rank, i + 1, result, empty_count + 1)

create_rank(rank) == create_rank_loop(rank, 1, <<>>, 0)

\* chunks(8).map(create_rank).join("/")
get_piece_placement(piece_placement) ==
    join([r \in 1..8 |-> create_rank(SubSeq(piece_placement, 8 * (r - 1) + 1, 8 * r))], "/")

fen_get_side_to_move(side_to_move) == IF side_to_move = White THEN <<"w">> ELSE <<"b">>

CASTLING_PIECES == <<WhiteKing, WhiteQueen, BlackKing, BlackQueen>>

\* The two asserts of get_castling_ability, made for a non-empty list: at
\* most four pieces, and each of the four castling pieces is contained in the
\* list.
get_castling_ability_panics(castling_ability) ==
    /\ castling_ability # <<>>
    /\ ~(/\ Len(castling_ability) <= 4
         /\ \A i \in 1..4 : CASTLING_PIECES[i] \in SeqRange(castling_ability))

get_castling_ability(castling_ability) ==
    IF castling_ability = <<>> THEN <<"-">>
    ELSE [i \in 1..Len(castling_ability) |-> piece_to_char(castling_ability[i])]

\* impl Display for Square, character by character
fen_get_en_passant_target_square(square) ==
    IF square # NoSquare
    THEN <<FileNames[get_file(square) + 1], RankNames[get_rank(square) + 1]>>
    ELSE <<"-">>

get_half_move_clock(half_move_clock) == to_string(half_move_clock)

\* assert!(full_move_counter > 0)
get_full_move_counter_panics(full_move_counter) == ~(full_move_counter > 0)
get_full_move_counter(full_move_counter) == to_string(full_move_counter)

\* fen::create: the six fields separated by one space.
fen_create_panics(castling_ability, full_move_counter) ==
    get_castling_ability_panics(castling_ability)
    \/ get_full_move_counter_panics(full_move_counter)

fen_create(piece_placement, side_to_move, castling_ability, en_passant_target_square, half_move_clock, full_move_counter) ==
    join(<< get_piece_placement(piece_placement),
            fen_get_side_to_move(side_to_move),
            get_castling_ability(castling_ability),
            fen_get_en_passant_target_square(en_passant_target_square),
            get_half_move_clock(half_move_clock),
            get_full_move_counter(full_move_counter) >>, " ")

\* parse_piece_placement: a digit d stands for d empty squares, any other
\* character for its piece (nothing when it is no piece letter).
RECURSIVE parse_rank(_)
parse_rank(rank) ==
    IF rank = <<>> THEN <<>>
    ELSE (IF is_digit(Head(rank)) THEN [i \in 1..digit_value(Head(rank)) |-> NoPiece]
          ELSE <<char_to_piece(Head(rank))>>)
         \o parse_rank(Tail(rank))

parse_piece_placement(s) ==
    LET ranks == split(s, "/")
    IN  FlattenSeq([r \in 1..Len(ranks) |-> parse_rank(ranks[r])])

\* assert!((1..=8).contains(&d)) and assert_eq!(pieces.len(), 64)
parse_piece_placement_panics(s) ==
    \/ \E i \in 1..Len(s) : is_digit(s[i]) /\ digit_value(s[i]) \notin 1..8
    \/ Len(parse_piece_placement(s)) # 64

parse_side_to_move_panics(s) == s \notin {<<"w">>, <<"b">>}
parse_side_to_move(s) == IF s = <<"w">> THEN White ELSE Black

\* c.try_into().unwrap() on every character
parse_castling_ability_panics(s) ==
    s # <<"-">> /\ \E i \in 1..Len(s) : char_to_piece(s[i]) = NoPiece

parse_castling_ability(s) ==
    IF s = <<"-">> THEN <<>> ELSE [i \in 1..Len(s) |-> char_to_piece(s[i])]

\* TryFrom<&str> for Square compares the upper-cased name with the 64 names,
\* then .ok(): the square of that file letter and rank digit, or None.
parse_en_passant_target_square(s) ==
    IF s = <<"-">> THEN NoSquare
    ELSE IF \E sq \in Squares : s = <<FileNames[get_file(sq) + 1], RankNames[get_rank(sq) + 1]>>
    THEN CHOOSE sq \in Squares : s = <<FileNames[get_file(sq) + 1], RankNames[get_rank(sq) + 1]>>
    ELSE NoSquare

\* fen::parse: the six decoded fields.
fen_parse_panics(fen) ==
    LET parts == split_ascii_whitespace(fen)
    IN  \/ Len(parts) # 6
        \/ parse_piece_placement_panics(parts[1])
        \/ parse_side_to_move_panics(parts[2])
        \/ parse_castling_ability_panics(parts[3])
        \/ parse_usize_panics(parts[5])
        \/ parse_usize_panics(parts[6])

fen_parse(fen) ==
    LET parts == split_ascii_whitespace(fen)
    IN  [piece_placement |-> parse_piece_placement(parts[1]),
         side_to_move |-> parse_side_to_move(parts[2]),
         castling_ability |-> parse_castling_ability(parts[3]),
         en_passant_target_square |-> parse_en_passant_target_square(parts[4]),
         half_move_clock |-> parse_usize(parts[5]),
         full_move_counter |-> parse_usize(parts[6])]

\* bitboard::from_array: the 64 entries start at a8 and run rank by rank down
\* to h1; entry f of the r-th chunk from the end is bit 8 * r + f.
from_array(filtered) ==
    {sq \in Squares : filtered[8 * (7 - get_rank(sq)) + get_file(sq) + 1] = 1}

\* Board::from_fen; CastlingAbility::new panics on a piece that is no king
\* and no queen. The board that update_by_move works on carries the two
\* clocks: they are taken from the parsed fields (new_board).
from_fen_panics(fen) ==
    \/ fen_parse_panics(fen)
    \/ \E piece \in SeqRange(fen_parse(fen).castling_ability) :
          piece \notin SeqRange(CASTLING_PIECES)

from_fen(fen) ==
    LET parsed == fen_parse(fen)
    IN  new_board([piece \in PieceIdx |->
                      from_array([i \in 1..64 |->
                                     IF parsed.piece_placement[i] = piece THEN 1 ELSE 0])],
                  parsed.side_to_move,
                  CastlingAbility_new(parsed.castling_ability),
                  parsed.en_passant_target_square,
                  parsed.half_move_clock,
                  parsed.full_move_counter)

\* CastlingAbility::as_pieces_iter
as_pieces_iter(ca) ==
    SelectSeq(CASTLING_PIECES, LAMBDA piece : AndBits(ca, get_mask_for_piece(piece)) # 0)

\* Board::as_fen: the squares from a8, rank by rank down to h1, each with the
\* first piece whose bitboard has the bit set; the clocks written are the
\* literals 0 and 1.
as_fen_piece_placement(board) ==
    LET piece_of(index) ==
            IF \E p \in PieceIdx : index \in board.pieces[p]
            THEN CHOOSE p \in PieceIdx :
                     index \in board.pieces[p] /\ \A q \in 0..(p - 1) : index \notin board.pieces[q]
            ELSE NoPiece
    IN  [i \in 1..64 |-> piece_of(8 * (7 - ((i - 1) \div 8)) + ((i - 1) % 8))]

as_fen_panics(board) == fen_create_panics(as_pieces_iter(board.castling_ability), 1)

as_fen(board) ==
    fen_create(as_fen_piece_placement(board), board.side_to_move,
               as_pieces_iter(board.castling_ability),
               board.en_passant_target_square, 0, 1)

\* ------------------------------------------------------------------------
\* Check and attack detection (board/attacks.rs)
\* ------------------------------------------------------------------------
\* Variant of attacks_king that leaves out the opposite king.
attacks_king_without_king(board, king_color) ==
    LET king_bb == board.pieces[get_king_of(king_color)]
        opp_king_color == opposite(king_color)
        opposite_pawns == board.pieces[get_pawn_of(opp_king_color)]
        opposite_knights == board.pieces[get_knight_of(opp_king_color)]
        opposite_rooks_queens == board.pieces[get_queen_of(opp_king_color)]
                                 \cup board.pieces[get_rook_of(opp_king_color)]
        opposite_bishops_queens == board.pieces[get_queen_of(opp_king_color)]
                                   \cup board.pieces[get_bishop_of(opp_king_color)]
        pawn_attacks == IF king_color = White THEN get_white_pawn_attacks(king_bb)
                        ELSE get_black_pawn_attacks(king_bb)
    IN  BitAnd(pawn_attacks, opposite_pawns)
        \cup BitAnd(get_knight_attacks(king_bb), opposite_knights)
        \cup BitAnd(get_bishop_attacks(king_bb, board.occupied), opposite_bishops_queens)
        \cup BitAnd(get_rook_attacks(king_bb, board.occupied), opposite_rooks_queens)

attacks_king(board, king_color) ==
    LET king_bb == board.pieces[get_king_of(king_color)]
        opp_king_color == opposite(king_color)
        opposite_pawns == board.pieces[get_pawn_of(opp_king_color)]
        opposite_knights == board.pieces[get_knight_of(opp_king_color)]
        opposite_king == board.pieces[get_king_of(opp_king_color)]
        opposite_rooks_queens == board.pieces[get_queen_of(opp_king_color)]
                                 \cup board.pieces[get_rook_of(opp_king_color)]
        opposite_bishops_queens == board.pieces[get_queen_of(opp_king_color)]
                                   \cup board.pieces[get_bishop_of(opp_king_color)]
        pawn_attacks == IF king_color = White THEN get_white_pawn_attacks(king_bb)
                        ELSE get_black_pawn_attacks(king_bb)
    IN  BitAnd(pawn_attacks, opposite_pawns)
        \cup BitAnd(get_knight_attacks(king_bb), opposite_knights)
        \cup BitAnd(get_king_attacks(king_bb), opposite_king)
        \cup BitAnd(get_bishop_attacks(king_bb, board.occupied), opposite_bishops_queens)
        \cup BitAnd(get_rook_attacks(king_bb, board.occupied), opposite_rooks_queens)

in_check(board) == attacks_king(board, board.side_to_move) # EMPTY

\* Variant of attacks_to that pairs each pawn attack pattern with the pawns
\* of the colour it belongs to.
attacks_to_pawns_swapped(board, square) ==
    LET bb == from_square(square)
        white_pawns == board.pieces[WhitePawn]
        black_pawns == board.pieces[BlackPawn]
        knights == board.pieces[WhiteKnight] \cup board.pieces[BlackKnight]
        kings == board.pieces[WhiteKing] \cup board.pieces[BlackKing]
        queens == board.pieces[WhiteQueen] \cup board.pieces[BlackQueen]
        rooks_queens == queens \cup board.pieces[WhiteRook] \cup board.pieces[BlackRook]
        bishops_queens == queens \cup board.pieces[WhiteBishop] \cup board.pieces[BlackBishop]
    IN  BitAnd(get_white_pawn_attacks(bb), white_pawns)
        \cup BitAnd(get_black_pawn_attacks(bb), black_pawns)
        \cup BitAnd(get_knight_attacks(bb), knights)
        \cup BitAnd(get_king_attacks(bb), kings)
        \cup BitAnd(get_bishop_attacks(bb, board.occupied), bishops_queens)
        \cup BitAnd(get_rook_attacks(bb, board.occupied), rooks_queens)

attacks_to(board, square) ==
    LET bb == from_square(square)
        white_pawns == board.pieces[WhitePawn]
        black_pawns == board.pieces[BlackPawn]
        knights == board.pieces[WhiteKnight] \cup board.pieces[BlackKnight]
        kings == board.pieces[WhiteKing] \cup board.pieces[BlackKing]
        queens == board.pieces[WhiteQueen] \cup board.pieces[BlackQueen]
        rooks_queens == queens \cup board.pieces[WhiteRook] \cup board.pieces[BlackRook]
        bishops_queens == queens \cup board.pieces[WhiteBishop] \cup board.pieces[BlackBishop]
    IN  BitAnd(get_white_pawn_attacks(bb), black_pawns)
        \cup BitAnd(get_black_pawn_attacks(bb), white_pawns)
        \cup BitAnd(get_knight_attacks(bb), knights)
        \cup BitAnd(get_king_attacks(bb), kings)
        \cup BitAnd(get_bishop_attacks(bb, board.occupied), bishops_queens)
        \cup BitAnd(get_rook_attacks(bb, board.occupied), rooks_queens)

\* ------------------------------------------------------------------------
\* Board update by move (board/update.rs)
\* ------------------------------------------------------------------------
\* Variant of capture_bb without the en passant correction: the square cleared
\* is always the destination.
capture_bb_destination(board, mv) == from_square(mv.to)

\* Square cleared by a capture: the en passant correction of lines 28-38.
capture_bb(board, mv) ==
    LET to_bb == from_square(mv.to)
    IN  IF is_pawn(mv.piece) /\ board.en_passant_target_square # NoSquare
           /\ board.en_passant_target_square = mv.to
        THEN IF get_color(mv.piece) = White THEN Shr(to_bb, 8) ELSE Shl(to_bb, 8)
        ELSE to_bb

\* Variant of remove_captured that does not update the Zobrist key.
remove_captured_stale_key(board, color, to_bb_capture) ==
    LET opp == opposite(color)
        hit == {i \in PieceIdx : i % 2 = opp /\ BitAnd(board.pieces[i], to_bb_capture) # EMPTY}
    IN  IF hit = {} THEN board
        ELSE LET piece_idx == CHOOSE i \in hit : \A j \in hit : i <= j
             IN  [board EXCEPT
                    !.pieces[piece_idx] = BitXor(@, to_bb_capture),
                    !.all[opp] = BitXor(@, to_bb_capture),
                    !.occupied = BitXor(@, to_bb_capture)]

\* Variant of remove_captured that leaves the captured piece on the board.
remove_captured_skipped(board, color, to_bb_capture) == board

\* Variant of remove_captured that does not toggle the occupied bitboard.
remove_captured_occupied_kept(board, color, to_bb_capture) ==
    LET opp == opposite(color)
        hit == {i \in PieceIdx : i % 2 = opp /\ BitAnd(board.pieces[i], to_bb_capture) # EMPTY}
    IN  IF hit = {} THEN board
        ELSE LET piece_idx == CHOOSE i \in hit : \A j \in hit : i <= j
                 captured_square == get_index(to_bb_capture)
             IN  [board EXCEPT
                    !.pieces[piece_idx] = BitXor(@, to_bb_capture),
                    !.all[opp] = BitXor(@, to_bb_capture),
                    !.zobrist_key = KeyXor(@, piece_key(captured_square, ALL_PIECES[piece_idx + 1]))]

\* Removal of the captured piece: the loop over the bitboards of the opposite
\* colour stops at the first one that intersects the captured square.
remove_captured(board, color, to_bb_capture) ==
    LET opp == opposite(color)
        hit == {i \in PieceIdx : i % 2 = opp /\ BitAnd(board.pieces[i], to_bb_capture) # EMPTY}
    IN  IF hit = {} THEN board
        ELSE LET piece_idx == CHOOSE i \in hit : \A j \in hit : i <= j
                 captured_square == get_index(to_bb_capture)
             IN  [board EXCEPT
                    !.pieces[piece_idx] = BitXor(@, to_bb_capture),
                    !.all[opp] = BitXor(@, to_bb_capture),
                    !.occupied = BitXor(@, to_bb_capture),
                    !.zobrist_key = KeyXor(@, piece_key(captured_square, ALL_PIECES[piece_idx + 1]))]

update_bitboards_by_move(board, mv) ==
    LET color == get_color(mv.piece)
        from_to_bb == BitXor(from_square(mv.from), from_square(mv.to))
        b1 == [board EXCEPT
                 !.pieces[mv.piece] = BitXor(@, from_to_bb),
                 !.all[color] = BitXor(@, from_to_bb),
                 !.occupied = BitXor(@, from_to_bb),
                 !.zobrist_key = KeyXor(KeyXor(@, piece_key(mv.from, mv.piece)),
                                        piece_key(mv.to, mv.piece))]
        b2 == IF mv.is_capture THEN remove_captured(b1, color, capture_bb(b1, mv)) ELSE b1
        castling1 == ca_clear(ca_clear(b2.castling_ability, mv.from), mv.to)
    IN  [b2 EXCEPT
           !.castling_ability = castling1,
           !.zobrist_key = KeyXor(KeyXor(@, castling_key(b2.castling_ability)),
                                  castling_key(castling1))]

\* Promotion: the pawn that arrived on `to` is switched to the new piece.
apply_promotion(board, mv) ==
    IF mv.promotion = NoPiece THEN board
    ELSE LET to_bb == from_square(mv.to)
         IN  [board EXCEPT
                !.pieces[mv.piece] = BitAnd(@, BitNot(to_bb)),
                !.pieces[mv.promotion] = BitOr(@, to_bb),
                !.zobrist_key = KeyXor(KeyXor(@, piece_key(mv.to, mv.piece)),
                                       piece_key(mv.to, mv.promotion))]

update_by_move(board, mv) ==
    LET b1 == update_bitboards_by_move(board, mv)
        b2 == apply_promotion(b1, mv)
        ep == get_en_passant_target_square(mv)
        b3 == [b2 EXCEPT
                 !.en_passant_target_square = ep,
                 !.zobrist_key = KeyXor(KeyXor(@, en_passant_key(b2.en_passant_target_square)),
                                        en_passant_key(ep))]
        rook_mv == get_castling_rook_move(mv)
        b4 == IF rook_mv # NoMove THEN update_bitboards_by_move(b3, rook_mv) ELSE b3
    IN  [b4 EXCEPT
           !.full_move_counter = IF b4.side_to_move = Black THEN @ + 1 ELSE @,
           !.half_move_clock = IF mv.is_capture \/ is_pawn(mv.piece) THEN 0 ELSE @ + 1,
           !.side_to_move = opposite(b4.side_to_move),
           !.zobrist_key = KeyXor(KeyXor(@, color_key(b4.side_to_move)),
                                  color_key(opposite(b4.side_to_move)))]

\* Option<Board>::None
NoBoard == [none |-> TRUE]

\* Variant of copy_with_move without the legality checks.
copy_with_move_unchecked(board, mv) == update_by_move(board, mv)

\* Variant of copy_with_move that does not look at the square the castling
\* king passes through.
copy_with_move_no_passed_square(board, mv) ==
    LET board_copy == update_by_move(board, mv)
        king_color == get_color(mv.piece)
        rook_mv == get_castling_rook_move(mv)
    IN  IF attacks_king(board_copy, king_color) # EMPTY THEN NoBoard
        ELSE IF rook_mv # NoMove /\ attacks_king(board, king_color) # EMPTY THEN NoBoard
        ELSE board_copy

copy_with_move(board, mv) ==
    LET board_copy == update_by_move(board, mv)
        king_color == get_color(mv.piece)
        rook_mv == get_castling_rook_move(mv)
    IN  IF attacks_king(board_copy, king_color) # EMPTY THEN NoBoard
        ELSE IF rook_mv # NoMove /\ attacks_king(board, king_color) # EMPTY THEN NoBoard
        ELSE IF rook_mv # NoMove
                /\ BitAnd(attacks_to(board, rook_mv.to), board.all[opposite(king_color)]) # EMPTY
             THEN NoBoard
        ELSE board_copy

\* ------------------------------------------------------------------------
\* Move generation (board/move_gen.rs)
\* ------------------------------------------------------------------------
\* Variant of can_castle_king_side that does not look at the castling rights.
can_castle_king_side_any_rights(board) ==
    mv_can_castle_king_side(board.occupied, board.side_to_move)

can_castle_king_side(board) ==
    ca_can_castle_king_side(board.castling_ability, board.side_to_move)
    /\ mv_can_castle_king_side(board.occupied, board.side_to_move)

can_castle_queen_side(board) ==
    ca_can_castle_queen_side(board.castling_ability, board.side_to_move)
    /\ mv_can_castle_queen_side(board.occupied, board.side_to_move)

\* Destination bitboard of one piece standing on from_bb (the match on piece).
moves_bb_of(board, piece, from_bb) ==
    LET own_bb == board.all[board.side_to_move]
        opposite_bb == board.all[opposite(board.side_to_move)]
    IN  CASE piece \in {WhiteKing, BlackKing} -> get_king_moves(from_bb, own_bb)
          [] piece \in {WhiteKnight, BlackKnight} -> get_knight_moves(from_bb, own_bb)
          [] piece = WhitePawn -> get_white_pawn_moves(from_bb, board.occupied, opposite_bb)
          [] piece = BlackPawn -> get_black_pawn_moves(from_bb, board.occupied, opposite_bb)
          [] piece \in {WhiteBishop, BlackBishop} -> get_bishop_moves(from_bb, board.occupied, own_bb)
          [] piece \in {WhiteRook, BlackRook} -> get_rook_moves(from_bb, board.occupied, own_bb)
          [] piece \in {WhiteQueen, BlackQueen} -> get_queen_moves(from_bb, board.occupied, own_bb)

\* Moves of one piece to one destination: the four promotions, or one move.
moves_to(board, piece, from_square_, to_square) ==
    LET opposite_bb == board.all[opposite(board.side_to_move)]
        is_capture == BitAnd(opposite_bb, from_square(to_square)) # EMPTY
    IN  IF is_pawn(piece) /\ is_promotion_rank_for(to_square, board.side_to_move)
        THEN [i \in 1..4 |->
                 Move_new(from_square_, to_square,
                          PROMOTION_PIECES[board.side_to_move + 1][i], piece, is_capture)]
        ELSE << Move_new(from_square_, to_square, NoPiece, piece, is_capture) >>

\* Variant of en_passant_moves that builds the moves without the capture flag.
en_passant_moves_quiet(board, piece, from_bb) ==
    IF board.en_passant_target_square # NoSquare
    THEN LET target_bb == from_square(board.en_passant_target_square)
             ep_attacks_bb ==
                 CASE piece = WhitePawn -> get_valid_white_pawn_attacks(from_bb, target_bb)
                   [] piece = BlackPawn -> get_valid_black_pawn_attacks(from_bb, target_bb)
                   [] OTHER -> EMPTY
             tos == into_iter(ep_attacks_bb)
         IN  [i \in 1..Len(tos) |-> Move_quiet(get_index(from_bb), tos[i], piece)]
    ELSE <<>>

\* En passant captures of one piece standing on from_bb.
en_passant_moves(board, piece, from_bb) ==
    IF board.en_passant_target_square # NoSquare
    THEN LET target_bb == from_square(board.en_passant_target_square)
             ep_attacks_bb ==
                 CASE piece = WhitePawn -> get_valid_white_pawn_attacks(from_bb, target_bb)
                   [] piece = BlackPawn -> get_valid_black_pawn_attacks(from_bb, target_bb)
                   [] OTHER -> EMPTY
             tos == into_iter(ep_attacks_bb)
         IN  [i \in 1..Len(tos) |-> Move_capture(get_index(from_bb), tos[i], piece)]
    ELSE <<>>

\* Body of the loop over the set bits of one piece bitboard.
moves_from(board, piece, from_sq) ==
    LET from_bb == from_square(from_sq)
        tos == into_iter(moves_bb_of(board, piece, from_bb))
    IN  FlattenSeq([i \in 1..Len(tos) |-> moves_to(board, piece, from_sq, tos[i])])
        \o en_passant_moves(board, piece, from_bb)

generate_moves_for(board, pieces) ==
    LET mine == SelectSeq(pieces, LAMBDA p : board.side_to_move = get_color(p))
        of_piece(piece) ==
            LET froms == into_iter(board.pieces[piece])
            IN  FlattenSeq([i \in 1..Len(froms) |-> moves_from(board, piece, froms[i])])
        king_side == IF can_castle_king_side(board)
                     THEN << KING_TO_KING_SIDE_CASTLING[board.side_to_move + 1] >> ELSE <<>>
        queen_side == IF can_castle_queen_side(board)
                      THEN << KING_TO_QUEEN_SIDE_CASTLING[board.side_to_move + 1] >> ELSE <<>>
    IN  FlattenSeq([i \in 1..Len(mine) |-> of_piece(mine[i])]) \o king_side \o queen_side

generate_moves(board) == generate_moves_for(board, ALL_PIECES)

\* ------------------------------------------------------------------------
\* Moves built from two squares (board/display.rs)
\* ------------------------------------------------------------------------
\* Board::find_piece_on: the piece standing on the square (the code crashes
\* when there is none).
find_piece_on(board, sq) == CHOOSE p \in PieceIdx : sq \in board.pieces[p]

\* Board::new_move
new_move(board, from, to) ==
    LET piece == find_piece_on(board, from)
        to_bb == from_square(to)
        is_capture == BitAnd(board.occupied, to_bb) # EMPTY
        promotion == IF is_promotion_rank_for(to, get_color(piece))
                     THEN get_queen_of(get_color(piece))
                     ELSE NoPiece
    IN  Move_new(from, to, promotion, piece, is_capture)

\* ------------------------------------------------------------------------
\* Perft (board/perft.rs)
\* ------------------------------------------------------------------------
\* Variant of perft that also counts the lines through moves copy_with_move
\* rejects.
RECURSIVE perft_pseudo_legal(_, _)
perft_pseudo_legal(board, depth) ==
    IF depth = 0 THEN 1
    ELSE LET move_list == generate_moves(board)
             RECURSIVE sum(_)
             sum(i) == IF i > Len(move_list) THEN 0
                       ELSE perft_pseudo_legal(copy_with_move_unchecked(board, move_list[i]),
                                               depth - 1)
                            + sum(i + 1)
         IN  sum(1)

RECURSIVE perft(_, _)
perft(board, depth) ==
    IF depth = 0 THEN 1
    ELSE LET move_list == generate_moves(board)
             RECURSIVE sum(_)
             sum(i) == IF i > Len(move_list) THEN 0
                       ELSE LET board_copy == copy_with_move(board, move_list[i])
                            IN  (IF board_copy # NoBoard THEN perft(board_copy, depth - 1) ELSE 0)
                                + sum(i + 1)
         IN  sum(1)

\* ------------------------------------------------------------------------
\* Evaluation (board/eval.rs): material, relative to the side to move.
\* ------------------------------------------------------------------------
P_VALUE == 100
N_VALUE == 320
B_VALUE == 330
R_VALUE == 500
Q_VALUE == 900
K_VALUE == 20000

\* count_ones
count_ones(bb) == Cardinality(bb)

material_scores(board) ==
    LET values == <<P_VALUE, N_VALUE, B_VALUE, R_VALUE, Q_VALUE, K_VALUE>>
        RECURSIVE fold(_, _)
        fold(i, acc) ==
            IF i > 5 THEN acc
            ELSE fold(i + 1, << acc[1] + count_ones(board.pieces[2 * i]) * values[i + 1],
                                acc[2] + count_ones(board.pieces[2 * i + 1]) * values[i + 1] >>)
    IN  fold(0, <<0, 0>>)

eval(board) ==
    LET ms == material_scores(board)
    IN  IF board.side_to_move = White THEN ms[1] - ms[2] ELSE ms[2] - ms[1]

\* ------------------------------------------------------------------------
\* Alpha-beta search (engine/search/alphabeta.rs)
\* ------------------------------------------------------------------------
\* i32::MIN / 2 and its negation (common.rs)
MIN_SCORE == -1073741824
MAX_SCORE == -MIN_SCORE

MATE_SCORE == 40000

\* Option<i32> of mate_in / mated_in
NoDist == [some |-> FALSE, value |-> 0]
SomeDist(dist) == [some |-> TRUE, value |-> dist]

\* Rust's integer division truncates toward zero.
div_trunc(a, b) == IF a >= 0 THEN a \div b ELSE -((-a) \div b)

\* Variant of mate_in that halves the distance in plies without rounding up.
mate_in_rounded_down(score) ==
    IF score >= MATE_SCORE - 1000 THEN SomeDist(div_trunc(MATE_SCORE - score, 2))
    ELSE NoDist

mate_in(score) ==
    IF score >= MATE_SCORE - 1000 THEN SomeDist(div_trunc(MATE_SCORE - score + 1, 2))
    ELSE NoDist

mated_in(score) ==
    IF score <= -MATE_SCORE + 1000 THEN SomeDist(div_trunc(MATE_SCORE + score, 2))
    ELSE NoDist

\* stop_flag.load() inside alphabeta. The flag is only ever set while a search
\* runs, so one call of alphabeta sees it false up to some load and true from
\* then on: stop_from is the number of the first load that reads true, 0 when
\* no load of the call does; n is the number of the load.
stop_flag_load(stop_from, n) == stop_from # 0 /\ n >= stop_from

\* Variant of alphabeta_result that does not tell checkmate from stalemate.
alphabeta_result_without_check(board, mate, legal_moves, best_score) ==
    IF legal_moves THEN best_score ELSE 0

\* Value of alphabeta once the loop over the moves has ended.
alphabeta_result(board, mate, legal_moves, best_score) ==
    IF legal_moves THEN best_score
    ELSE IF in_check(board) THEN -mate
    ELSE 0

\* alphabeta returns its score together with what it leaves in its &mut
\* arguments: pv_line, the nodes it added to nodes_count, and the number of
\* loads of the stop flag made so far.
RECURSIVE alphabeta(_, _, _, _, _, _, _, _)
RECURSIVE alphabeta_loop(_, _, _, _, _, _, _, _)

\* What alphabeta hands back when the loop has ended in the local state st.
alphabeta_return(board, mate, st) ==
    [score |-> alphabeta_result(board, mate, st.legal_moves, st.best_score),
     pv_line |-> st.pv_line, nodes |-> st.nodes, loads |-> st.loads]

\* The local state after a legal move mv whose subtree returned r.
alphabeta_update(st, mv, r) ==
    [legal_moves |-> TRUE,
     best_score |-> IF -r.score > st.best_score THEN -r.score ELSE st.best_score,
     alpha |-> IF -r.score > st.best_score /\ -r.score > st.alpha THEN -r.score ELSE st.alpha,
     pv_line |-> IF -r.score > st.best_score /\ -r.score > st.alpha
                 THEN <<mv>> \o r.pv_line ELSE st.pv_line,
     nodes |-> st.nodes + 1 + r.nodes,
     loads |-> r.loads]

\* Variant of alphabeta_cutoff that cuts off as soon as a move reaches alpha.
alphabeta_cutoff_on_alpha(board, move_list, i, depth, beta, mate, stop_from, st1, child_score) ==
    IF child_score >= st1.alpha
    THEN alphabeta_return(board, mate, st1)
    ELSE alphabeta_loop(board, move_list, i + 1, depth, beta, mate, stop_from, st1)

\* The end of the loop body: the fail-soft beta cutoff, or the next move.
alphabeta_cutoff(board, move_list, i, depth, beta, mate, stop_from, st1, child_score) ==
    IF child_score >= beta
    THEN alphabeta_return(board, mate, st1)
    ELSE alphabeta_loop(board, move_list, i + 1, depth, beta, mate, stop_from, st1)

\* The loop body once the subtree of the legal move returned r.
alphabeta_child(board, move_list, i, depth, beta, mate, stop_from, st, r) ==
    alphabeta_cutoff(board, move_list, i, depth, beta, mate, stop_from,
                     alphabeta_update(st, move_list[i], r), -r.score)

\* Variant of alphabeta_body that hands mate down without decrementing it.
alphabeta_body_mate_kept(board, move_list, i, depth, beta, mate, stop_from, st, next) ==
    IF next = NoBoard
    THEN alphabeta_loop(board, move_list, i + 1, depth, beta, mate, stop_from, st)
    ELSE alphabeta_child(board, move_list, i, depth, beta, mate, stop_from, st,
                         alphabeta(next, depth - 1, -beta, -st.alpha, mate,
                                   stop_from, st.loads, <<>>))

\* The loop body for the move mv, next being what copy_with_move returned.
alphabeta_body(board, move_list, i, depth, beta, mate, stop_from, st, next) ==
    IF next = NoBoard
    THEN alphabeta_loop(board, move_list, i + 1, depth, beta, mate, stop_from, st)
    ELSE alphabeta_child(board, move_list, i, depth, beta, mate, stop_from, st,
                         alphabeta(next, depth - 1, -beta, -st.alpha, mate - 1,
                                   stop_from, st.loads, <<>>))

\* The loop `for mv in move_list` from its i-th element, with the local state
\* st = [legal_moves, best_score, alpha, pv_line, nodes, loads].
alphabeta_loop(board, move_list, i, depth, beta, mate, stop_from, st) ==
    IF i > Len(move_list) THEN alphabeta_return(board, mate, st)
    ELSE alphabeta_body(board, move_list, i, depth, beta, mate, stop_from, st,
                        copy_with_move(board, move_list[i]))

alphabeta(board, depth, alpha, beta, mate, stop_from, loads, pv_line) ==
    IF depth = 0
    THEN [score |-> eval(board), pv_line |-> pv_line, nodes |-> 0, loads |-> loads]
    ELSE IF stop_flag_load(stop_from, loads + 1)
    THEN [score |-> eval(board), pv_line |-> pv_line, nodes |-> 0, loads |-> loads + 1]
    ELSE alphabeta_loop(board, generate_moves(board), 1, depth, beta, mate, stop_from,
                        [legal_moves |-> FALSE, best_score |-> MIN_SCORE, alpha |-> alpha,
                         pv_line |-> pv_line, nodes |-> 0, loads |-> loads + 1])

\* search::Result
BestMove(m, sc) == [kind |-> "BestMove", mv |-> m, score |-> sc]
CheckMate == [kind |-> "CheckMate", mv |-> NoMove, score |-> 0]
StaleMate == [kind |-> "StaleMate", mv |-> NoMove, score |-> 0]
\* run has not returned
NoResult == [kind |-> "None", mv |-> NoMove, score |-> 0]

\* Variant of info_score that reports every score in centipawns.
info_score_always_cp(sc) == [kind |-> "Score", value |-> sc]

\* The score element of an info record: InfoData::ScoreMate or InfoData::Score.
info_score(sc) ==
    IF mate_in(sc).some THEN [kind |-> "ScoreMate", value |-> mate_in(sc).value]
    ELSE IF mated_in(sc).some THEN [kind |-> "ScoreMate", value |-> -mated_in(sc).value]
    ELSE [kind |-> "Score", value |-> sc]

\* The info record of an iteration: Depth, Nodes, Pv and the score element.
info_data(d, nodes, pv, sc) ==
    [depth |-> d, nodes |-> nodes, pv |-> pv, score |-> info_score(sc)]

\* Variant of search_interrupted that gives up the first iteration as well.
search_interrupted_any_depth(d, stop) == stop

\* Variant of search_interrupted that never gives up an iteration.
search_interrupted_never(d, stop) == FALSE

\* The test made after the call of alphabeta: the iteration was interrupted.
search_interrupted(d, stop) == d > 1 /\ stop

\* The test at the end of the loop body, after depth += 1.
search_over(d, max, stop) == d >= max \/ stop

\* ------------------------------------------------------------------------
\* State: a node of the perft / search recursion.
\*   board      the position of the node (`self` of copy_with_move)
\*   mv         the generated move the loop body is working on, or NoMove
\*   board_copy the clone with update_by_move(mv) applied
\*   succ       what copy_with_move(mv) returned: the clone, or NoBoard
\*   ply        number of moves made from the start position
\* State of the iterative deepening driver `run` on the root position board:
\*   pc          where run stands: "idle", "alphabeta", "after_alphabeta",
\*               "loop_end" or "returned"
\*   depth, max_depth, pv_line, nodes_count, result   the locals of run
\*   score       what the last call of alphabeta returned
\*   stop_flag   the shared AtomicBool
\*   info        the Event::Info records sent so far
\*   returned    the value run returned, NoResult before
\*   observed    history: a load of the stop flag inside the last call of
\*               alphabeta read true
\*   best_moves  the Event::BestMove events sent so far (the move, or NoMove)
\*   attack_sq   the square handed to the attack functions
\*   attack_occ  the occupancy (or the set of pieces) handed to them
\*   attack_bbs  the bitboards they returned, <<>> before the calls
\* State of the engine seen as the UCI thread and its search threads:
\*   threads     where each search thread spawned so far stands
\*   commands    history: the go and stop commands handled so far
\* ------------------------------------------------------------------------
VARIABLES board, mv, board_copy, succ, ply
VARIABLES pc, depth, max_depth, stop_flag, pv_line, nodes_count, score, result,
          info, returned, observed, best_moves

VARIABLES attack_sq, attack_occ, attack_bbs

VARIABLES threads, commands

node_vars == <<mv, board_copy, succ, ply>>
search_vars == <<pc, depth, max_depth, stop_flag, pv_line, nodes_count, score, result,
                 info, returned, observed, best_moves>>
attack_vars == <<attack_sq, attack_occ, attack_bbs>>
thread_vars == <<threads, commands>>
vars == <<board, node_vars, search_vars, attack_vars, thread_vars>>

\* No attack set is being computed.
AttackIdle ==
    /\ attack_sq = 0
    /\ attack_occ = {}
    /\ attack_bbs = <<>>

\* No command was handled and no search thread was spawned.
ThreadsIdle ==
    /\ threads = <<>>
    /\ commands = <<>>

\* No search is running.
SearchIdle ==
    /\ pc = "idle"
    /\ depth = 0
    /\ max_depth = 0
    /\ stop_flag = FALSE
    /\ pv_line = <<>>
    /\ nodes_count = 0
    /\ score = 0
    /\ result = NoResult
    /\ info = <<>>
    /\ returned = NoResult
    /\ observed = FALSE
    /\ best_moves = <<>>

\* Longest line of play explored.
MaxPly == 2

\* Piece placement from a set of <<piece, set of square names>> pairs.
Place(S) == [p \in PieceIdx |-> UNION {{SQ(n) : n \in x[2]} : x \in {y \in S : y[1] = p}}]

\* r3k2r/8/8/8/8/8/8/R3K2R w KQkq - 0 1
PosCastling ==
    new_board(Place({<<WhiteRook, {"a1", "h1"}>>,
                     <<BlackRook, {"a8", "h8"}>>,
                     <<WhiteKing, {"e1"}>>,
                     <<BlackKing, {"e8"}>>}),
              White, CASTLING_ALL, NoSquare, 0, 1)

\* n1n1k3/1P6/8/8/8/8/6p1/4K2R w K - 0 1
PosPromotion ==
    new_board(Place({<<WhitePawn, {"b7"}>>,
                     <<BlackPawn, {"g2"}>>,
                     <<BlackKnight, {"a8", "c8"}>>,
                     <<WhiteRook, {"h1"}>>,
                     <<WhiteKing, {"e1"}>>,
                     <<BlackKing, {"e8"}>>}),
              White, CastlingAbility_new(<<WhiteKing>>), NoSquare, 0, 1)

\* 4k3/p7/8/1P6/8/8/6P1/4K3 b - - 0 1
PosDoublePush ==
    new_board(Place({<<WhitePawn, {"b5", "g2"}>>,
                     <<BlackPawn, {"a7"}>>,
                     <<WhiteKing, {"e1"}>>,
                     <<BlackKing, {"e8"}>>}),
              Black, CASTLING_NONE, NoSquare, 0, 1)

\* 8/8/8/3k4/2pP4/1B6/6K1/8 b - d3 0 2 (board/update.rs, test_copy_with_move_en_passant)
PosEnPassantPinned ==
    new_board(Place({<<WhitePawn, {"d4"}>>,
                     <<BlackPawn, {"c4"}>>,
                     <<WhiteBishop, {"b3"}>>,
                     <<WhiteKing, {"g2"}>>,
                     <<BlackKing, {"d5"}>>}),
              Black, CASTLING_NONE, SQ("d3"), 0, 2)

\* 4k3/8/8/2PpP3/8/8/8/4K3 w - d6 0 2
PosEnPassantTwo ==
    new_board(Place({<<WhitePawn, {"c5", "e5"}>>,
                     <<BlackPawn, {"d5"}>>,
                     <<WhiteKing, {"e1"}>>,
                     <<BlackKing, {"e8"}>>}),
              White, CASTLING_NONE, SQ("d6"), 0, 2)

\* 8/2kp4/8/K1P4r/8/8/8/8 w - - 1 2 (test_copy_with_move_king_moves_next_to_king)
PosKings ==
    new_board(Place({<<WhitePawn, {"c5"}>>,
                     <<BlackPawn, {"d7"}>>,
                     <<BlackRook, {"h5"}>>,
                     <<WhiteKing, {"a5"}>>,
                     <<BlackKing, {"c7"}>>}),
              White, CASTLING_NONE, NoSquare, 1, 2)

\* r3k2r/p1ppqpb1/bn2pnp1/3PN3/1p2P3/2N2Q1p/PPPBBPPP/R3K2R w KQkq - 0 1 (board/perft.rs)
PosKiwipete ==
    new_board(Place({<<WhitePawn, {"a2", "b2", "c2", "d5", "e4", "f2", "g2", "h2"}>>,
                     <<BlackPawn, {"a7", "b4", "c7", "d7", "e6", "f7", "g6", "h3"}>>,
                     <<WhiteKnight, {"c3", "e5"}>>,
                     <<BlackKnight, {"b6", "f6"}>>,
                     <<WhiteBishop, {"d2", "e2"}>>,
                     <<BlackBishop, {"a6", "g7"}>>,
                     <<WhiteRook, {"a1", "h1"}>>,
                     <<BlackRook, {"a8", "h8"}>>,
                     <<WhiteQueen, {"f3"}>>,
                     <<BlackQueen, {"e7"}>>,
                     <<WhiteKing, {"e1"}>>,
                     <<BlackKing, {"e8"}>>}),
              White, CASTLING_ALL, NoSquare, 0, 1)

\* 5k2/8/8/8/8/8/5n2/4K2R w K - 3 9: the king side of the position of
\* test_copy_with_move_castling_rook_attacked, the knight attacks the rook
PosRookAttacked ==
    new_board(Place({<<BlackKnight, {"f2"}>>,
                     <<WhiteRook, {"h1"}>>,
                     <<WhiteKing, {"e1"}>>,
                     <<BlackKing, {"f8"}>>}),
              White, CastlingAbility_new(<<WhiteKing>>), NoSquare, 3, 9)

\* r3k2r/7p/8/8/8/8/7P/R3K2R w KQkq - 0 1
PosCastlingPawns ==
    new_board(Place({<<WhitePawn, {"h2"}>>,
                     <<BlackPawn, {"h7"}>>,
                     <<WhiteRook, {"a1", "h1"}>>,
                     <<BlackRook, {"a8", "h8"}>>,
                     <<WhiteKing, {"e1"}>>,
                     <<BlackKing, {"e8"}>>}),
              White, CASTLING_ALL, NoSquare, 0, 1)

StartPositions ==
    {initial_board, PosCastling, PosPromotion, PosDoublePush, PosEnPassantPinned,
     PosEnPassantTwo, PosKings, PosRookAttacked, PosCastlingPawns}

Init ==
    /\ board \in StartPositions
    /\ mv = NoMove
    /\ board_copy = NoBoard
    /\ succ = NoBoard
    /\ ply = 0
    /\ SearchIdle
    /\ AttackIdle
    /\ ThreadsIdle

\* One pass of the loop `for mv in move_list` up to the call of copy_with_move.
CopyWithMove ==
    /\ mv = NoMove
    /\ ply < MaxPly
    /\ \E m \in SeqRange(generate_moves(board)) :
          /\ mv' = m
          /\ board_copy' = update_by_move(board, m)
          /\ succ' = copy_with_move(board, m)
    /\ UNCHANGED <<board, ply, search_vars, attack_vars, thread_vars>>

\* `if let Some(board_copy)`: the recursion goes on from the successor.
Descend ==
    /\ mv # NoMove
    /\ succ # NoBoard
    /\ board' = succ
    /\ ply' = ply + 1
    /\ mv' = NoMove
    /\ board_copy' = NoBoard
    /\ succ' = NoBoard
    /\ UNCHANGED <<search_vars, attack_vars, thread_vars>>

\* The loop goes on to the next move; the clone is dropped.
NextMove ==
    /\ mv # NoMove
    /\ mv' = NoMove
    /\ board_copy' = NoBoard
    /\ succ' = NoBoard
    /\ UNCHANGED <<board, ply, search_vars, attack_vars, thread_vars>>

Next == CopyWithMove \/ Descend \/ NextMove

Spec == Init /\ [][Next]_vars

\* ------------------------------------------------------------------------
\* The iterative deepening driver (engine/search/alphabeta.rs, run) and the
\* thread that sets the stop flag (engine/game.rs, stop_search).
\* ------------------------------------------------------------------------
\* Largest search_params.depth given to run.
MaxDepth == 3

\* Latest load of the stop flag inside one call of alphabeta that is the
\* first to read true.
MaxStopLoad == 3

\* 7k/6Q1/6K1/8/8/8/8/8 b - - 0 1: black is checkmated
PosCheckMate ==
    new_board(Place({<<WhiteQueen, {"g7"}>>, <<WhiteKing, {"g6"}>>, <<BlackKing, {"h8"}>>}),
              Black, CASTLING_NONE, NoSquare, 0, 1)

\* 4k3/4P3/4Q3/8/8/8/8/5K2 b - - 0 1 (alphabeta.rs, test_stalemate)
PosStaleMate ==
    new_board(Place({<<WhitePawn, {"e7"}>>, <<WhiteQueen, {"e6"}>>, <<WhiteKing, {"f1"}>>,
                     <<BlackKing, {"e8"}>>}),
              Black, CASTLING_NONE, NoSquare, 0, 1)

\* 7k/5K2/8/8/8/8/8/6Q1 b - - 0 1: black has one move and is mated after it
PosMatedNext ==
    new_board(Place({<<WhiteQueen, {"g1"}>>, <<WhiteKing, {"f7"}>>, <<BlackKing, {"h8"}>>}),
              Black, CASTLING_NONE, NoSquare, 0, 1)

\* 7k/8/6K1/8/8/8/8/5Q2 w - - 0 1: white mates in one
PosMateInOne ==
    new_board(Place({<<WhiteQueen, {"f1"}>>, <<WhiteKing, {"g6"}>>, <<BlackKing, {"h8"}>>}),
              White, CASTLING_NONE, NoSquare, 0, 1)

SearchPositions ==
    {PosCheckMate, PosStaleMate, PosMatedNext, PosMateInOne, PosKings, PosDoublePush,
     PosEnPassantTwo, PosEnPassantPinned, PosPromotion}

\* run is entered: the locals are initialised, the flag is clear.
SearchInit ==
    /\ board \in SearchPositions
    /\ mv = NoMove
    /\ board_copy = NoBoard
    /\ succ = NoBoard
    /\ ply = 0
    /\ pc = "alphabeta"
    /\ depth = 1
    /\ max_depth \in 0..MaxDepth
    /\ stop_flag = FALSE
    /\ pv_line = <<>>
    /\ nodes_count = 0
    /\ score = 0
    /\ result = StaleMate
    /\ info = <<>>
    /\ returned = NoResult
    /\ observed = FALSE
    /\ best_moves = <<>>
    /\ AttackIdle
    /\ ThreadsIdle

\* The call of alphabeta at the current depth. The flag may be set by the
\* other thread before any of the loads the call makes.
SearchAlphabeta ==
    /\ pc = "alphabeta"
    /\ \E stop_from \in (IF stop_flag THEN {1} ELSE 0..MaxStopLoad) :
          LET r == alphabeta(board, depth, MIN_SCORE, MAX_SCORE, MATE_SCORE, stop_from, 0,
                             pv_line)
          IN  /\ score' = r.score
              /\ pv_line' = r.pv_line
              /\ nodes_count' = nodes_count + r.nodes
              /\ stop_flag' = (stop_flag \/ stop_flag_load(stop_from, r.loads))
              /\ observed' = stop_flag_load(stop_from, r.loads)
    /\ pc' = "after_alphabeta"
    /\ UNCHANGED <<board, node_vars, attack_vars, thread_vars, depth, max_depth, result, info, returned, best_moves>>

\* The loop body after the call of alphabeta, up to depth += 1.
SearchIteration ==
    /\ pc = "after_alphabeta"
    /\ IF search_interrupted(depth, stop_flag)
       THEN /\ returned' = result
            /\ pc' = "returned"
            /\ UNCHANGED <<info, result, depth>>
       ELSE IF ~mate_in(score).some /\ mated_in(score) = SomeDist(0)
       THEN /\ returned' = CheckMate
            /\ pc' = "returned"
            /\ UNCHANGED <<info, result, depth>>
       ELSE /\ info' = Append(info, info_data(depth, nodes_count, pv_line, score))
            /\ IF pv_line = <<>>
               THEN /\ returned' = StaleMate
                    /\ pc' = "returned"
                    /\ UNCHANGED <<result, depth>>
               ELSE /\ result' = BestMove(pv_line[1], score)
                    /\ depth' = depth + 1
                    /\ pc' = "loop_end"
                    /\ UNCHANGED returned
    /\ UNCHANGED <<board, node_vars, attack_vars, thread_vars, max_depth, stop_flag, pv_line, nodes_count, score,
                   observed, best_moves>>

\* The test that ends the loop, and the return of result after it.
SearchLoopEnd ==
    /\ pc = "loop_end"
    /\ IF search_over(depth, max_depth, stop_flag)
       THEN returned' = result /\ pc' = "returned"
       ELSE returned' = returned /\ pc' = "alphabeta"
    /\ UNCHANGED <<board, node_vars, attack_vars, thread_vars, depth, max_depth, stop_flag, pv_line, nodes_count,
                   score, result, info, observed, best_moves>>

\* Game::stop_search on the other thread, between two steps of run.
StopSearch ==
    /\ pc \in {"alphabeta", "after_alphabeta", "loop_end"}
    /\ ~stop_flag
    /\ stop_flag' = TRUE
    /\ UNCHANGED <<board, node_vars, attack_vars, thread_vars, pc, depth, max_depth, pv_line, nodes_count, score,
                   result, info, returned, observed, best_moves>>

SearchNext == SearchAlphabeta \/ SearchIteration \/ SearchLoopEnd \/ StopSearch

SearchSpec == SearchInit /\ [][SearchNext]_vars

\* ------------------------------------------------------------------------
\* The game (engine/game.rs): start_search spawns a thread that executes
\* run_search, stop_search stores true in the shared stop flag. pc = "idle"
\* before any search, "spawned" once the thread exists and has not entered
\* run_search, the positions of run while the search runs, "returned" when the
\* search handed its Result to run_search, "finished" when run_search has
\* returned. The search only loads the flag.
\* ------------------------------------------------------------------------
\* Number of searches whose BestMove event is awaited.
MaxSearches == 1

GamePositions == {PosCheckMate, PosMateInOne, PosKings}

\* Game::new, then set_to_fen.
GameInit ==
    /\ board \in GamePositions
    /\ mv = NoMove
    /\ board_copy = NoBoard
    /\ succ = NoBoard
    /\ ply = 0
    /\ SearchIdle
    /\ AttackIdle
    /\ ThreadsIdle

\* Game::start_search: ignored when the flag is set, else a thread is spawned
\* with clones of the board, the parameters, the sender and the flag.
StartSearch ==
    /\ pc \in {"idle", "finished"}
    /\ Len(best_moves) < MaxSearches
    /\ IF stop_flag
       THEN UNCHANGED <<pc, max_depth>>
       ELSE /\ pc' = "spawned"
            /\ max_depth' \in 0..MaxDepth
    /\ UNCHANGED <<board, node_vars, attack_vars, thread_vars, depth, stop_flag, pv_line, nodes_count, score, result,
                   info, returned, observed, best_moves>>

\* run_search up to the call of the search: it returns at once when the flag
\* is set; otherwise the search is entered and initialises its locals.
RunSearchEntry ==
    /\ pc = "spawned"
    /\ IF stop_flag
       THEN /\ pc' = "finished"
            /\ UNCHANGED <<depth, pv_line, nodes_count, result, returned, observed>>
       ELSE /\ pc' = "alphabeta"
            /\ depth' = 1
            /\ pv_line' = <<>>
            /\ nodes_count' = 0
            /\ result' = StaleMate
            /\ returned' = NoResult
            /\ observed' = FALSE
    /\ UNCHANGED <<board, node_vars, attack_vars, thread_vars, max_depth, stop_flag, score, info, best_moves>>

\* run_search after the search returned: the score and the BestMove event
\* are sent (BestMove(None) for CheckMate and StaleMate), the flag is cleared.
RunSearchEnd ==
    /\ pc = "returned"
    /\ info' = IF returned.kind = "BestMove"
               THEN Append(info, [kind |-> "Score", value |-> returned.score])
               ELSE info
    /\ best_moves' = Append(best_moves, returned.mv)
    /\ stop_flag' = FALSE
    /\ pc' = "finished"
    /\ UNCHANGED <<board, node_vars, attack_vars, thread_vars, depth, max_depth, pv_line, nodes_count, score, result,
                   returned, observed>>

\* Game::stop_search while the search thread exists.
GameStopSearch ==
    /\ pc \in {"spawned", "alphabeta", "after_alphabeta", "loop_end", "returned"}
    /\ stop_flag' = TRUE
    /\ UNCHANGED <<board, node_vars, attack_vars, thread_vars, pc, depth, max_depth, pv_line, nodes_count, score,
                   result, info, returned, observed, best_moves>>

GameNext ==
    \/ StartSearch
    \/ RunSearchEntry
    \/ SearchAlphabeta
    \/ SearchIteration
    \/ SearchLoopEnd
    \/ RunSearchEnd
    \/ GameStopSearch

GameSpec == GameInit /\ [][GameNext]_vars

\* ------------------------------------------------------------------------
\* Decoding of a score (alphabeta.rs, mate_in and mated_in) on its own: the
\* score is any value around the two mate windows and around 0, and the step
\* leaves in info the pair of Options the two functions return for it.
\* ------------------------------------------------------------------------
\* Width of the mate windows: scores within 1000 of +-MATE_SCORE are mates.
MATE_WINDOW == 1000

\* How far beyond the ends of the mate windows the scores tried reach.
ScoreMargin == 3

DecodeScores ==
    (-MATE_SCORE - ScoreMargin .. -MATE_SCORE + MATE_WINDOW + ScoreMargin)
        \cup (-ScoreMargin .. ScoreMargin)
        \cup (MATE_SCORE - MATE_WINDOW - ScoreMargin .. MATE_SCORE + ScoreMargin)

DecodeInit ==
    /\ board = initial_board
    /\ mv = NoMove
    /\ board_copy = NoBoard
    /\ succ = NoBoard
    /\ ply = 0
    /\ pc = "decode"
    /\ depth = 0
    /\ max_depth = 0
    /\ stop_flag = FALSE
    /\ pv_line = <<>>
    /\ nodes_count = 0
    /\ score \in DecodeScores
    /\ result = NoResult
    /\ info = <<>>
    /\ returned = NoResult
    /\ observed = FALSE
    /\ best_moves = <<>>
    /\ AttackIdle
    /\ ThreadsIdle

\* mate_in(score) and mated_in(score) are called.
DecodeScore ==
    /\ pc = "decode"
    /\ info' = <<[mate_in |-> mate_in(score), mated_in |-> mated_in(score)]>>
    /\ pc' = "decoded"
    /\ UNCHANGED <<board, node_vars, attack_vars, thread_vars, depth, max_depth, stop_flag, pv_line, nodes_count,
                   score, result, returned, observed, best_moves>>

DecodeNext == DecodeScore

DecodeSpec == DecodeInit /\ [][DecodeNext]_vars

\* ========================================================================
\* The attack functions called on their own: every square, with occupancies
\* of a few blockers on the lines through the square and either nothing or
\* everything off those lines.
\* ========================================================================
\* Most blockers placed on the lines through the square.
MaxBlockers == 2

\* The other squares of the file and the rank of s, and of its two diagonals.
RookLines(s) == {t \in Squares \ {s} : get_file(t) = get_file(s) \/ get_rank(t) = get_rank(s)}
BishopLines(s) ==
    {t \in Squares \ {s} : get_file(t) - get_file(s) = get_rank(t) - get_rank(s)
                           \/ get_file(t) - get_file(s) = get_rank(s) - get_rank(t)}

\* The subsets of S of at most n squares.
RECURSIVE UpTo(_, _)
UpTo(S, n) ==
    IF n = 0 THEN {{}}
    ELSE LET fewer == UpTo(S, n - 1) IN fewer \cup {x \cup {a} : x \in fewer, a \in S}

\* Occupancies around s: blockers on the lines of one kind of slider, and
\* either no other piece or a piece on every other square (s included).
Occupancies(s) ==
    {blockers \cup crowd :
        blockers \in UpTo(RookLines(s), MaxBlockers),
        crowd \in {{}, Squares \ RookLines(s)}}
    \cup {blockers \cup crowd :
        blockers \in UpTo(BishopLines(s), MaxBlockers),
        crowd \in {{}, Squares \ BishopLines(s)}}

AttackInit ==
    /\ board = initial_board
    /\ mv = NoMove
    /\ board_copy = NoBoard
    /\ succ = NoBoard
    /\ ply = 0
    /\ SearchIdle
    /\ attack_sq \in Squares
    /\ attack_occ \in Occupancies(attack_sq)
    /\ attack_bbs = <<>>
    /\ ThreadsIdle

\* The sliding attacks of a piece on attack_sq with occupancy attack_occ.
SlidingAttacks ==
    /\ attack_bbs = <<>>
    /\ attack_bbs' = <<[kind |-> "sliding",
                        rook |-> hq_get_rook_attacks(attack_occ, attack_sq),
                        bishop |-> hq_get_bishop_attacks(attack_occ, attack_sq),
                        queen |-> hq_get_queen_attacks(attack_occ, attack_sq),
                        rank |-> rank_attacks(attack_occ, attack_sq)]>>
    /\ UNCHANGED <<board, node_vars, search_vars, attack_sq, attack_occ, thread_vars>>

\* The non-sliding attacks of a piece on attack_sq, and of pieces on every
\* square of attack_occ.
NonSlidingAttacks ==
    /\ attack_bbs = <<>>
    /\ attack_bbs' = <<[kind |-> "non_sliding",
                        king |-> get_king_attacks({attack_sq}),
                        knight |-> get_knight_attacks({attack_sq}),
                        white_pawn |-> get_white_pawn_attacks({attack_sq}),
                        black_pawn |-> get_black_pawn_attacks({attack_sq}),
                        kings |-> get_king_attacks(attack_occ),
                        knights |-> get_knight_attacks(attack_occ),
                        white_pawns |-> get_white_pawn_attacks(attack_occ),
                        black_pawns |-> get_black_pawn_attacks(attack_occ)]>>
    /\ UNCHANGED <<board, node_vars, search_vars, attack_sq, attack_occ, thread_vars>>

AttackNext == SlidingAttacks \/ NonSlidingAttacks

AttackSpec == AttackInit /\ [][AttackNext]_vars

\* ========================================================================
\* One call of alphabeta with the full window and a stop flag that stays
\* clear, on the search positions without promotions and on the positions one
\* move after the pawn endings among them.
\* ========================================================================
\* Largest depth handed to the call.
MaxPruneDepth == 2

\* The positions the legal moves of b lead to.
Children(b) == {copy_with_move(b, generate_moves(b)[i]) : i \in 1..Len(generate_moves(b))} \ {NoBoard}

PrunePositions ==
    {PosCheckMate, PosStaleMate, PosMatedNext, PosMateInOne, PosKings, PosDoublePush,
     PosEnPassantTwo, PosEnPassantPinned}
    \cup Children(PosDoublePush) \cup Children(PosEnPassantTwo) \cup Children(PosEnPassantPinned)

PruneInit ==
    /\ board \in PrunePositions
    /\ mv = NoMove
    /\ board_copy = NoBoard
    /\ succ = NoBoard
    /\ ply = 0
    /\ pc = "prune"
    /\ depth \in 1..MaxPruneDepth
    /\ max_depth = 0
    /\ stop_flag = FALSE
    /\ pv_line = <<>>
    /\ nodes_count = 0
    /\ score = 0
    /\ result = NoResult
    /\ info = <<>>
    /\ returned = NoResult
    /\ observed = FALSE
    /\ best_moves = <<>>
    /\ AttackIdle
    /\ ThreadsIdle

\* alphabeta(board, depth, MIN_SCORE, MAX_SCORE, MATE_SCORE, ..) as run calls
\* it, no load of the stop flag reading true.
FullWindowAlphabeta ==
    /\ pc = "prune"
    /\ LET r == alphabeta(board, depth, MIN_SCORE, MAX_SCORE, MATE_SCORE, 0, 0, pv_line)
       IN  /\ score' = r.score
           /\ pv_line' = r.pv_line
           /\ nodes_count' = nodes_count + r.nodes
    /\ pc' = "pruned"
    /\ UNCHANGED <<board, node_vars, attack_vars, thread_vars, depth, max_depth, stop_flag, result, info,
                   returned, observed, best_moves>>

PruneNext == FullWindowAlphabeta

PruneSpec == PruneInit /\ [][PruneNext]_vars

\* ========================================================================
\* The stop flag protocol between the UCI thread and the search threads
\* (engine/game.rs). The UCI thread handles go and stop commands in any
\* order; every start_search that passes the flag check spawns a thread. The
\* search itself only loads the flag and is one step here: what it finds is
\* the subject of SearchSpec, and best_moves holds for each BestMove event
\* the number of the thread that sent it.
\*   threads[i]  "spawned"    run_search has not loaded the flag yet
\*               "searching"  the flag read false, the search is running
\*               "sent"       the BestMove event is on the channel
\*               "done"       the flag was cleared, the thread ended
\*               "skipped"    the flag read true, the thread ended silently
\*   commands[k] the k-th command: cmd, the number of threads that had not
\*               ended (live) and that were searching when it was handled,
\*               and the thread it spawned (0 for none)
\* ========================================================================
\* Number of go and stop commands handled.
MaxCommands == 3

Live(ts) == {i \in DOMAIN ts : ts[i] \in {"spawned", "searching", "sent"}}
Searching(ts) == {i \in DOMAIN ts : ts[i] = "searching"}

Command(cmd, spawned) ==
    [cmd |-> cmd, live |-> Cardinality(Live(threads)),
     searching |-> Cardinality(Searching(threads)), thread |-> spawned]

ThreadsInit ==
    /\ board = initial_board
    /\ mv = NoMove
    /\ board_copy = NoBoard
    /\ succ = NoBoard
    /\ ply = 0
    /\ SearchIdle
    /\ AttackIdle
    /\ ThreadsIdle

\* handle_go_cmd, Game::start_search: ignored when the flag is set, else a
\* thread is spawned with a clone of the flag.
UciGo ==
    /\ Len(commands) < MaxCommands
    /\ IF stop_flag
       THEN /\ commands' = Append(commands, Command("go", 0))
            /\ UNCHANGED threads
       ELSE /\ commands' = Append(commands, Command("go", Len(threads) + 1))
            /\ threads' = Append(threads, "spawned")
    /\ UNCHANGED <<board, node_vars, search_vars, attack_vars>>

\* handle_stop_cmd, Game::stop_search: the flag is set, whatever it was.
UciStop ==
    /\ Len(commands) < MaxCommands
    /\ commands' = Append(commands, Command("stop", 0))
    /\ stop_flag' = TRUE
    /\ UNCHANGED <<board, node_vars, attack_vars, threads, pc, depth, max_depth, pv_line,
                   nodes_count, score, result, info, returned, observed, best_moves>>

\* run_search, the load of the flag at its entry.
ThreadEntry(i) ==
    /\ i \in DOMAIN threads
    /\ threads[i] = "spawned"
    /\ threads' = [threads EXCEPT ![i] = IF stop_flag THEN "skipped" ELSE "searching"]
    /\ UNCHANGED <<board, node_vars, search_vars, attack_vars, commands>>

\* run_search, the search returns and the BestMove event is sent.
ThreadSend(i) ==
    /\ i \in DOMAIN threads
    /\ threads[i] = "searching"
    /\ threads' = [threads EXCEPT ![i] = "sent"]
    /\ best_moves' = Append(best_moves, i)
    /\ UNCHANGED <<board, node_vars, attack_vars, commands, pc, depth, max_depth, stop_flag,
                   pv_line, nodes_count, score, result, info, returned, observed>>

\* run_search, the store that clears the flag; the thread ends.
ThreadClear(i) ==
    /\ i \in DOMAIN threads
    /\ threads[i] = "sent"
    /\ threads' = [threads EXCEPT ![i] = "done"]
    /\ stop_flag' = FALSE
    /\ UNCHANGED <<board, node_vars, attack_vars, commands, pc, depth, max_depth, pv_line,
                   nodes_count, score, result, info, returned, observed, best_moves>>

ThreadStep == \E i \in DOMAIN threads : ThreadEntry(i) \/ ThreadSend(i) \/ ThreadClear(i)

ThreadsNext == UciGo \/ UciStop \/ ThreadStep

ThreadsSpec == ThreadsInit /\ [][ThreadsNext]_vars

\* Every spawned thread is scheduled until it ends.
ThreadsFairSpec == ThreadsSpec /\ \A i \in 1..MaxCommands : WF_vars(ThreadEntry(i) \/ ThreadSend(i) \/ ThreadClear(i))

\* ========================================================================
\* Properties of the board (checked under Spec)
\* ========================================================================
\* Reference view of a position: the piece standing on a square, read square
\* by square, and attacks described by board geometry (ranks and files)
\* instead of shifts and masks.
PiecesOn(b, sq) == {p \in PieceIdx : sq \in b.pieces[p]}
PieceOn(b, sq) == IF PiecesOn(b, sq) = {} THEN NoPiece ELSE CHOOSE p \in PiecesOn(b, sq) : TRUE

FileDist(a, b) == abs_diff(get_file(a), get_file(b))
RankDist(a, b) == abs_diff(get_rank(a), get_rank(b))

OnRookLine(a, b) == a # b /\ (get_file(a) = get_file(b) \/ get_rank(a) = get_rank(b))
OnBishopLine(a, b) == a # b /\ FileDist(a, b) = RankDist(a, b)

\* Squares strictly between two squares of one rank, file or diagonal.
Between(a, b) ==
    {s \in Squares \ {a, b} :
        /\ \/ (OnRookLine(a, b) /\ OnRookLine(a, s) /\ OnRookLine(s, b))
           \/ (OnBishopLine(a, b) /\ OnBishopLine(a, s) /\ OnBishopLine(s, b))
        /\ FileDist(a, s) + FileDist(s, b) = FileDist(a, b)
        /\ RankDist(a, s) + RankDist(s, b) = RankDist(a, b)}

ClearLine(b, a, t) == \A s \in Between(a, t) : PiecesOn(b, s) = {}

\* The piece standing on `from` attacks the square `target`.
RefAttacks(b, from, target) ==
    LET p == PieceOn(b, from)
    IN  CASE p = WhitePawn -> get_rank(target) = get_rank(from) + 1 /\ FileDist(from, target) = 1
          [] p = BlackPawn -> get_rank(target) = get_rank(from) - 1 /\ FileDist(from, target) = 1
          [] p \in {WhiteKnight, BlackKnight} ->
                 {FileDist(from, target), RankDist(from, target)} = {1, 2}
          [] p \in {WhiteKing, BlackKing} ->
                 from # target /\ FileDist(from, target) <= 1 /\ RankDist(from, target) <= 1
          [] p \in {WhiteBishop, BlackBishop} ->
                 OnBishopLine(from, target) /\ ClearLine(b, from, target)
          [] p \in {WhiteRook, BlackRook} ->
                 OnRookLine(from, target) /\ ClearLine(b, from, target)
          [] p \in {WhiteQueen, BlackQueen} ->
                 (OnBishopLine(from, target) \/ OnRookLine(from, target))
                 /\ ClearLine(b, from, target)
          [] OTHER -> FALSE

\* Squares holding a piece of `color` that attacks `target`.
RefAttackers(b, target, color) ==
    {from \in Squares : PieceOn(b, from) # NoPiece /\ get_color(PieceOn(b, from)) = color
                        /\ RefAttacks(b, from, target)}

KingSquares(b, color) == b.pieces[get_king_of(color)]

RefIsCastling(m) == is_king(m.piece) /\ FileDist(m.from, m.to) = 2
RefIsEnPassant(b, m) == is_pawn(m.piece) /\ m.is_capture /\ PieceOn(b, m.to) = NoPiece
RefIsDoublePush(b, m) == is_pawn(PieceOn(b, m.from)) /\ abs_diff(m.from, m.to) = 16

Tried == mv # NoMove
Accepted == mv # NoMove /\ succ # NoBoard
Rejected == mv # NoMove /\ succ = NoBoard

\* C1: the incrementally maintained zobrist_key equals the from-scratch
\* recomputation (piece-on-square keys, side key, castling key, en passant key)
\* in every position reached by update_by_move with generated moves, and in
\* every clone update_by_move was applied to.
C1_ZobristIncremental ==
    /\ board.zobrist_key = gen_zobrist_key(board)
    /\ Tried => board_copy.zobrist_key = gen_zobrist_key(board_copy)

\* A promotion that captures was applied one move after another move.
C1_Witness ==
    /\ Accepted /\ ply >= 1
    /\ mv.promotion # NoPiece /\ mv.is_capture
    /\ succ.zobrist_key # board.zobrist_key

\* C2: the twelve piece bitboards are pairwise disjoint in every position
\* accepted by copy_with_move.
Disjoint(b) == \A p, q \in PieceIdx : p # q => b.pieces[p] \cap b.pieces[q] = {}

C2_PiecesDisjoint == Disjoint(board) /\ (Accepted => Disjoint(succ))

\* An en passant capture was accepted.
C2_Witness == Accepted /\ RefIsEnPassant(board, mv) /\ ply >= 1

\* C3: `all` of each colour is the union of that colour's six piece bitboards
\* and `occupied` is the union of both, after every update_by_move.
OccupancyConsistent(b) ==
    /\ \A c \in {White, Black} :
          b.all[c] = {s \in Squares : \E p \in PieceIdx : p % 2 = c /\ s \in b.pieces[p]}
    /\ b.occupied = {s \in Squares : \E p \in PieceIdx : s \in b.pieces[p]}

C3_OccupancyConsistent == OccupancyConsistent(board) /\ (Tried => OccupancyConsistent(board_copy))

\* A castling move (king and rook both moved) was accepted.
C3_Witness == Accepted /\ RefIsCastling(mv) /\ PieceOn(succ, (mv.from + mv.to) \div 2) \in {WhiteRook, BlackRook}

\* C4: each side has exactly one king in every accepted position.
OneKingEach(b) == \A c \in {White, Black} : Cardinality(KingSquares(b, c)) = 1

C4_OneKingEach == OneKingEach(board) /\ (Accepted => OneKingEach(succ))

\* A move that would leave the mover's king capturable was rejected.
C4_Witness == Rejected /\ ply >= 1 /\ RefAttackers(board_copy, get_index(KingSquares(board_copy, get_color(mv.piece))), opposite(get_color(mv.piece))) # {}

\* Castling rights as a set of bit indexes: 0 white king side, 1 white queen
\* side, 2 black king side, 3 black queen side.
RECURSIVE Pow2(_)
Pow2(n) == IF n = 0 THEN 1 ELSE 2 * Pow2(n - 1)
Rights(ca) == {i \in 0..3 : (ca \div Pow2(i)) % 2 = 1}

\* Home squares of the king and of the rook of a right.
KingHome(right) == IF right \in {0, 1} THEN SQ("e1") ELSE SQ("e8")
RookHome(right) ==
    CASE right = 0 -> SQ("h1") [] right = 1 -> SQ("a1")
      [] right = 2 -> SQ("h8") [] right = 3 -> SQ("a8")
RightColor(right) == IF right \in {0, 1} THEN White ELSE Black

RightsAtHome(b) ==
    \A r \in Rights(b.castling_ability) :
        /\ PieceOn(b, KingHome(r)) = get_king_of(RightColor(r))
        /\ PieceOn(b, RookHome(r)) = get_rook_of(RightColor(r))

\* C5: a castling right is held only while that side's king and the rook of
\* that wing stand on their home squares; a move clears exactly the rights
\* whose king or rook home square is its from or to square.
C5_CastlingRights ==
    /\ RightsAtHome(board)
    /\ Tried =>
          /\ RightsAtHome(board_copy)
          /\ Rights(board_copy.castling_ability) =
                {r \in Rights(board.castling_ability) :
                    {KingHome(r), RookHome(r)} \cap {mv.from, mv.to} = {}}

\* An enemy rook was captured on its home square while its right was held, by
\* a rook that left its own home square.
C5_Witness ==
    /\ Tried /\ mv.is_capture
    /\ mv.from = SQ("a1") /\ mv.to = SQ("a8")
    /\ Rights(board.castling_ability) = {0, 1, 2, 3}
    /\ Rights(board_copy.castling_ability) = {0, 2}

\* C6: after update_by_move(mv) the en passant target is set iff mv is a
\* double pawn push, and is then the square between from and to, on rank 3
\* after a white push and rank 6 after a black one, with the pushed pawn on
\* the square in front of it; any other move clears it.
EnPassantShape(b) ==
    b.en_passant_target_square # NoSquare =>
        LET ep == b.en_passant_target_square
            pusher == opposite(b.side_to_move)
        IN  IF pusher = White
            THEN get_rank(ep) = 2 /\ PieceOn(b, ep + 8) = WhitePawn
            ELSE get_rank(ep) = 5 /\ PieceOn(b, ep - 8) = BlackPawn

C6_EnPassantTarget ==
    /\ EnPassantShape(board)
    /\ Tried =>
          /\ EnPassantShape(board_copy)
          /\ (board_copy.en_passant_target_square # NoSquare) <=> RefIsDoublePush(board, mv)
          /\ RefIsDoublePush(board, mv) =>
                /\ 2 * board_copy.en_passant_target_square = mv.from + mv.to
                /\ PieceOn(board_copy, mv.to) = mv.piece

\* A castling move was applied to a position whose en passant target was set.
C6_Witness ==
    /\ Tried /\ RefIsCastling(mv)
    /\ board.en_passant_target_square # NoSquare
    /\ board_copy.en_passant_target_square = NoSquare

\* The mover's king is attacked in the position b.
MoverKingAttacked(b, m) ==
    \E k \in KingSquares(b, get_color(m.piece)) :
        RefAttackers(b, k, opposite(get_color(m.piece))) # {}

\* C7: for a non-castling move, copy_with_move returns nothing iff the mover's
\* king is attacked in the position after the move; otherwise it returns the
\* clone with update_by_move applied.
C7_LegalityNonCastling ==
    (Tried /\ ~RefIsCastling(mv)) =>
        /\ (succ = NoBoard) <=> MoverKingAttacked(board_copy, mv)
        /\ succ # NoBoard => succ = update_by_move(board, mv)

\* An en passant capture that uncovers a check on the mover's king was rejected.
C7_Witness ==
    /\ Rejected /\ RefIsEnPassant(board, mv)
    /\ RefAttackers(board, get_index(KingSquares(board, get_color(mv.piece))),
                    opposite(get_color(mv.piece))) = {}

\* C8: a castling move is rejected iff the king is in check before the move,
\* or the square it passes through is attacked by the opponent before the
\* move, or its destination is attacked after the move; an attack on the rook
\* or on the b-file square does not matter.
PassedSquare(m) == (m.from + m.to) \div 2

C8_LegalityCastling ==
    (Tried /\ RefIsCastling(mv)) =>
        LET opp == opposite(get_color(mv.piece))
        IN  (succ = NoBoard) <=>
                \/ RefAttackers(board, mv.from, opp) # {}
                \/ RefAttackers(board, PassedSquare(mv), opp) # {}
                \/ RefAttackers(board_copy, mv.to, opp) # {}

\* A castling move was accepted although the castling rook was attacked.
C8_Witness ==
    /\ Accepted /\ RefIsCastling(mv)
    /\ \E r \in {SQ("a1"), SQ("h1"), SQ("a8"), SQ("h8")} :
          /\ FileDist(r, mv.to) <= 2
          /\ RankDist(r, mv.to) = 0
          /\ RefAttackers(board, r, opposite(get_color(mv.piece))) # {}

\* A castling move was rejected only because the passed square was attacked.
C8_WitnessRejected ==
    /\ Rejected /\ RefIsCastling(mv)
    /\ RefAttackers(board, mv.from, opposite(get_color(mv.piece))) = {}
    /\ RefAttackers(board_copy, mv.to, opposite(get_color(mv.piece))) = {}

\* The legal moves of a position.
LegalMoves(b) == {m \in SeqRange(generate_moves(b)) : copy_with_move(b, m) # NoBoard}

\* The side to move of b is in check.
RefInCheck(b) ==
    \E k \in KingSquares(b, b.side_to_move) :
        RefAttackers(b, k, opposite(b.side_to_move)) # {}

\* ------------------------------------------------------------------------
\* Properties of perft and of move generation
\* ------------------------------------------------------------------------
\* Deepest perft computed for the start positions.
MaxPerftDepth == 2

\* The lines of d legal moves playable from b, as sequences of moves.
RECURSIVE RefLines(_, _)
RefLines(b, d) ==
    IF d = 0 THEN {<<>>}
    ELSE UNION {{<<m>> \o l : l \in RefLines(copy_with_move(b, m), d - 1)} :
                m \in {g \in SeqRange(generate_moves(b)) : copy_with_move(b, g) # NoBoard}}

\* C18: perft counts the leaves of the tree of legal moves: perft(pos, 0) = 1
\* and perft(pos, d) is the number of lines of d moves each accepted by
\* copy_with_move (for the start positions up to MaxPerftDepth, for the
\* positions one move later at depth 1); on the initial position
\* perft(1) = 20, perft(2) = 400 and perft(3) = 8902.
C18_Perft ==
    /\ (ply = 0 /\ mv = NoMove) =>
          /\ perft(board, 0) = 1
          /\ \A d \in 1..MaxPerftDepth : perft(board, d) = Cardinality(RefLines(board, d))
          /\ board = initial_board =>
                (perft(board, 1) = 20 /\ perft(board, 2) = 400 /\ perft(board, 3) = 8902)
    /\ (ply = 1 /\ mv = NoMove) =>
          (perft(board, 0) = 1 /\ perft(board, 1) = Cardinality(RefLines(board, 1)))

\* perft was computed for a position reached by a move that has generated
\* moves copy_with_move rejects.
C18_Witness ==
    /\ ply = 1
    /\ mv = NoMove
    /\ perft(board, 1) > 0
    /\ perft(board, 1) < Len(generate_moves(board))

\* perft was computed for the initial position.
C18_WitnessInitial ==
    /\ ply = 0
    /\ mv = NoMove
    /\ board = initial_board
    /\ perft(board, 2) = 400

\* The square of the back rank of color on the file of index file (a = 0).
BackRank(color, file) == Square_new(IF color = White THEN 0 ELSE 7, file)

\* generate_moves(b) holds the move of the king of the side to move from the
\* e-file to the file of index file of its back rank.
CastlingEmitted(b, file) ==
    \E m \in SeqRange(generate_moves(b)) :
        /\ m.piece = get_king_of(b.side_to_move)
        /\ m.from = BackRank(b.side_to_move, 4)
        /\ m.to = BackRank(b.side_to_move, file)

\* The side to move of b holds the right of the wing (0 king side, 1 queen
\* side) and the squares of the given files of its back rank are empty.
MayCastle(b, wing, files) ==
    /\ (2 * b.side_to_move + wing) \in Rights(b.castling_ability)
    /\ \A f \in files : PieceOn(b, BackRank(b.side_to_move, f)) = NoPiece

\* C19: generate_moves emits the king-side castling move (e1g1 / e8g8) iff the
\* side to move holds the king-side right and the f and g squares of its back
\* rank are empty, and the queen-side castling move (e1c1 / e8c8) iff it holds
\* the queen-side right and the b, c and d squares are empty, whether or not
\* the king is in check or would cross an attacked square.
C19_CastlingGeneration ==
    mv = NoMove =>
        /\ CastlingEmitted(board, 6) <=> MayCastle(board, 0, {5, 6})
        /\ CastlingEmitted(board, 2) <=> MayCastle(board, 1, {1, 2, 3})

\* A castling move is generated although the king is in check or the square
\* it crosses is attacked.
C19_Witness ==
    /\ mv = NoMove
    /\ \/ CastlingEmitted(board, 6) /\ RefInCheck(board)
       \/ /\ CastlingEmitted(board, 2)
          /\ RefAttackers(board, BackRank(board.side_to_move, 3),
                          opposite(board.side_to_move)) # {}

\* No castling move is generated for a side that holds the right while a
\* square between king and rook is occupied.
C19_WitnessBlocked ==
    /\ mv = NoMove
    /\ (2 * board.side_to_move) \in Rights(board.castling_ability)
    /\ ~CastlingEmitted(board, 6)

\* The squares from which a pawn of the side to move of b attacks the en
\* passant target diagonally forward and on which such a pawn stands.
EnPassantCapturers(b) ==
    {f \in Squares :
        /\ PieceOn(b, f) = get_pawn_of(b.side_to_move)
        /\ FileDist(f, b.en_passant_target_square) = 1
        /\ get_rank(b.en_passant_target_square)
              = get_rank(f) + (IF b.side_to_move = White THEN 1 ELSE -1)}

\* m takes a piece of the opponent standing on its destination.
TakesOnDestination(b, m) ==
    /\ PieceOn(b, m.to) # NoPiece
    /\ get_color(PieceOn(b, m.to)) = opposite(b.side_to_move)

\* The moves of the list ms, generated for b, that capture on the en passant
\* target, as indices.
EnPassantGenerated(b, ms) ==
    {i \in 1..Len(ms) : ms[i].to = b.en_passant_target_square /\ ms[i].is_capture}

\* The list ms generated for b holds the en passant captures of b.
EnPassantEmitted(b, ms) ==
    /\ \A f \in EnPassantCapturers(b) :
          Cardinality({i \in 1..Len(ms) :
                          ms[i].from = f /\ ms[i].to = b.en_passant_target_square}) = 1
    /\ \A i \in EnPassantGenerated(b, ms) :
          /\ ms[i].from \in EnPassantCapturers(b)
          /\ ms[i].piece = get_pawn_of(b.side_to_move)
          /\ ms[i].promotion = NoPiece
    /\ Cardinality(EnPassantGenerated(b, ms)) = Cardinality(EnPassantCapturers(b))

\* The other moves of ms are flagged as captures iff they take on their
\* destination.
CaptureFlags(b, ms) ==
    \A i \in 1..Len(ms) :
        (b.en_passant_target_square = NoSquare \/ i \notin EnPassantGenerated(b, ms))
            => (ms[i].is_capture <=> TakesOnDestination(b, ms[i]))

\* C20: when en_passant_target is set, generate_moves emits for each pawn of
\* the side to move that attacks that square diagonally forward exactly one
\* move to it, with is_capture = true, and no capture on that square by any
\* other piece; every other generated move has is_capture = true iff its
\* destination holds a piece of the opponent.
C20_EnPassantGeneration ==
    mv = NoMove =>
        LET ms == generate_moves(board)
        IN  /\ board.en_passant_target_square # NoSquare => EnPassantEmitted(board, ms)
            /\ CaptureFlags(board, ms)

\* A double push made in the tree set the en passant target and the capture
\* on it is generated for the pawn that attacks it.
C20_Witness ==
    /\ mv = NoMove
    /\ ply > 0
    /\ board.en_passant_target_square # NoSquare
    /\ EnPassantCapturers(board) # {}
    /\ Cardinality(EnPassantGenerated(board, generate_moves(board)))
          = Cardinality(EnPassantCapturers(board))

\* Two pawns may capture on the same en passant target: both captures are
\* generated.
C20_WitnessTwo ==
    /\ mv = NoMove
    /\ board.en_passant_target_square # NoSquare
    /\ Cardinality(EnPassantCapturers(board)) = 2
    /\ Cardinality(EnPassantGenerated(board, generate_moves(board))) = 2

\* The en passant target is set and no pawn of the side to move attacks it,
\* while another piece can move to it: no capture on it is generated.
C20_WitnessNoCapturer ==
    /\ mv = NoMove
    /\ board.en_passant_target_square # NoSquare
    /\ EnPassantCapturers(board) = {}
    /\ \E m \in SeqRange(generate_moves(board)) : m.to = board.en_passant_target_square

\* ------------------------------------------------------------------------
\* Properties of the search driver
\* ------------------------------------------------------------------------
\* run has returned and the stop flag was never set.
ReturnedUncancelled == pc = "returned" /\ ~stop_flag

\* C9: without cancellation run returns CheckMate iff the root has no legal
\* move and its side to move is in check, StaleMate iff it has no legal move
\* and is not in check (alphabeta then gave score 0 and an empty PV), and
\* otherwise BestMove(mv, score) with mv the first move of a non-empty PV and
\* a legal move of the root.
C9_DriverResult ==
    ReturnedUncancelled =>
        /\ (returned = CheckMate) <=> (LegalMoves(board) = {} /\ RefInCheck(board))
        /\ (returned = StaleMate) <=> (LegalMoves(board) = {} /\ ~RefInCheck(board))
        /\ returned = StaleMate => (score = 0 /\ pv_line = <<>>)
        /\ LegalMoves(board) # {} =>
              /\ returned.kind = "BestMove"
              /\ pv_line # <<>>
              /\ returned.mv = pv_line[1]
              /\ returned.score = score
              /\ returned.mv \in LegalMoves(board)

\* run returned CheckMate for a checkmated root without cancellation.
C9_Witness ==
    /\ ReturnedUncancelled
    /\ returned = CheckMate
    /\ LegalMoves(board) = {}

\* run returned a best move after two complete iterations, uncancelled.
C9_WitnessBestMove ==
    /\ ReturnedUncancelled
    /\ returned.kind = "BestMove"
    /\ Len(info) >= 2

\* run returned StaleMate without cancellation.
C9_WitnessStaleMate ==
    /\ ReturnedUncancelled
    /\ returned = StaleMate

\* The stop flag is seen set by the test that follows the call of alphabeta
\* of an iteration deeper than the first.
InterruptedIteration == pc = "after_alphabeta" /\ depth > 1 /\ stop_flag

\* C10: when the stop flag is seen set after the alphabeta call of an
\* iteration at depth d > 1, run sends no info record for depth d and returns
\* the BestMove (move and score) recorded at the end of iteration d - 1,
\* whatever score and PV the interrupted iteration produced.
C10_InterruptedIterationDiscarded ==
    [][InterruptedIteration =>
          /\ pc' = "returned"
          /\ info' = info
          /\ returned' = result
          /\ result.kind = "BestMove"
          /\ Len(info) = depth - 1
          /\ info[depth - 1].depth = depth - 1
          /\ info[depth - 1].pv # <<>>
          /\ result.mv = info[depth - 1].pv[1]
          /\ info[depth - 1].score = info_score(result.score)]_vars

\* run returned the best move of the previous iteration although the
\* interrupted iteration ended with another score.
C10_Witness ==
    /\ pc = "returned"
    /\ stop_flag
    /\ depth > 1
    /\ returned.kind = "BestMove"
    /\ score # returned.score
    /\ Len(info) = depth - 1

\* The last call of alphabeta ran to completion: none of its loads of the
\* stop flag read true.
FullAlphabeta == pc \in {"after_alphabeta", "loop_end", "returned"} /\ ~observed

\* C11: when the call of alphabeta at depth d ran to completion with no load
\* of the stop flag reading true and the flag is set only afterwards, run
\* returns the best move and the score of depth d (the PV and score that
\* call left), not those of depth d - 1.
C11_FullDepthRetained ==
    (pc = "returned" /\ FullAlphabeta /\ stop_flag /\ LegalMoves(board) # {}) =>
        (pv_line # <<>> /\ returned = BestMove(pv_line[1], score))

\* C12: with search_params.depth = D >= 1, the stop flag never set and a root
\* that has a legal move, run completes the iterations of depths 1, 2, ..., D:
\* it has sent D info records, the d-th reporting depth d, and it returns the
\* best move of the search of depth D.
C12_MaxDepthReached ==
    (pc = "returned" /\ ~stop_flag /\ max_depth >= 1 /\ LegalMoves(board) # {}) =>
        /\ Len(info) = max_depth
        /\ \A d \in 1..max_depth : info[d].depth = d
        /\ returned = BestMove(pv_line[1], score)

\* Material balance of b for its side to move, read square by square.
RefEval(b) ==
    LET values == <<P_VALUE, N_VALUE, B_VALUE, R_VALUE, Q_VALUE, K_VALUE>>
        worth(sq) == IF PieceOn(b, sq) = NoPiece THEN 0
                     ELSE IF get_color(PieceOn(b, sq)) = b.side_to_move
                     THEN values[(PieceOn(b, sq) \div 2) + 1]
                     ELSE -values[(PieceOn(b, sq) \div 2) + 1]
        RECURSIVE sum(_)
        sum(sq) == IF sq > 63 THEN 0 ELSE worth(sq) + sum(sq + 1)
    IN  sum(0)

\* Value of the i-th generated move of b in a search of depth 1: the negated
\* evaluation of the position it leads to. Only used for legal moves.
RefDepth1Value(b, i) == -RefEval(copy_with_move(b, generate_moves(b)[i]))

\* Indices of the legal moves among the generated moves of b.
RefLegalIndices(b) ==
    {i \in 1..Len(generate_moves(b)) : copy_with_move(b, generate_moves(b)[i]) # NoBoard}

\* The result of a complete search of depth 1 from b: the first generated
\* legal move that reaches the highest value, with that value.
RefDepth1Best(b) ==
    LET best == CHOOSE i \in RefLegalIndices(b) :
                    /\ \A j \in RefLegalIndices(b) : RefDepth1Value(b, j) <= RefDepth1Value(b, i)
                    /\ \A j \in RefLegalIndices(b) :
                           RefDepth1Value(b, j) = RefDepth1Value(b, i) => i <= j
    IN  BestMove(generate_moves(b)[best], RefDepth1Value(b, best))

\* The entry of the alphabeta call of depth 1 read the stop flag true.
StoppedAtEntry == pc \in {"after_alphabeta", "returned"} /\ depth = 1 /\ observed

\* C13: when the stop flag is set at the entry of the alphabeta call of depth
\* 1, that call returns the static evaluation and leaves the PV empty, and run
\* sends one info record (depth 1, no node, empty PV, that score) and returns
\* StaleMate, also when the root has legal moves; when the flag is set only
\* after that entry and before depth 2 is completed, run returns the best
\* move of the complete search of depth 1.
C13_StopDuringDepthOne ==
    /\ StoppedAtEntry => (score = RefEval(board) /\ pv_line = <<>> /\ nodes_count = 0)
    /\ (StoppedAtEntry /\ pc = "returned") =>
          /\ returned = StaleMate
          /\ info = <<[depth |-> 1, nodes |-> 0, pv |-> <<>>,
                       score |-> [kind |-> "Score", value |-> RefEval(board)]]>>
    /\ (pc = "returned" /\ stop_flag /\ depth = 2) =>
          (Len(info) = 1 /\ returned = RefDepth1Best(board))

\* run returned StaleMate for a root that has legal moves: the flag was set
\* when the call of depth 1 was entered.
C13_Witness ==
    /\ StoppedAtEntry
    /\ pc = "returned"
    /\ returned = StaleMate
    /\ LegalMoves(board) # {}

\* The flag was set after the entry of the call of depth 1, run was asked for
\* more depths and returned the best move of depth 1 at the end of the loop.
C13_WitnessAfterEntry ==
    /\ pc = "returned"
    /\ stop_flag
    /\ depth = 2
    /\ max_depth > 2
    /\ ~observed
    /\ nodes_count = Cardinality(RefLegalIndices(board))
    /\ returned.kind = "BestMove"

\* The positions the legal moves of b lead to.
RefSuccessors(b) == {copy_with_move(b, m) : m \in LegalMoves(b)}

\* The side to move of b is checkmated.
RefMated(b) == LegalMoves(b) = {} /\ RefInCheck(b)

\* The side to move of b is checkmated within p plies (p even) whatever it
\* plays.
RECURSIVE RefLoseIn(_, _)
RefLoseIn(b, p) ==
    \/ RefMated(b)
    \/ /\ p >= 2
       /\ LegalMoves(b) # {}
       /\ \A s \in RefSuccessors(b) : \E t \in RefSuccessors(s) : RefLoseIn(t, p - 2)

\* The side to move of b can force checkmate within p plies (p odd).
RefWinIn(b, p) == \E s \in RefSuccessors(b) : RefLoseIn(s, p - 1)

\* The ply of the shortest forced mate the side to move of b can deliver
\* within d plies, and the ply at which it is mated against its longest
\* defence if that is within d plies; -1 when there is none.
RefWinPly(b, d) ==
    LET ps == {p \in 1..d : p % 2 = 1 /\ RefWinIn(b, p)}
    IN  IF ps = {} THEN -1 ELSE CHOOSE p \in ps : \A q \in ps : p <= q

RefLosePly(b, d) ==
    LET ps == {p \in 0..d : p % 2 = 0 /\ RefLoseIn(b, p)}
    IN  IF ps = {} THEN -1 ELSE CHOOSE p \in ps : \A q \in ps : p <= q

C15_WitnessMated ==
    /\ pc = "after_alphabeta"
    /\ ~observed
    /\ RefLosePly(board, 0) = 0
    /\ score = -MATE_SCORE

\* C16: mate_in(MATE_SCORE - 2k + 1) = k for 1 <= k <= 500 and
\* mated_in(-MATE_SCORE + 2k) = k for 0 <= k <= 500 (0: already mated);
\* mate_in is defined exactly for the scores >= MATE_SCORE - 1000, mated_in
\* exactly for the scores <= -MATE_SCORE + 1000, and never both.
C16_MateDecoding ==
    pc = "decoded" =>
        /\ \A k \in 1..(MATE_WINDOW \div 2) :
              score = MATE_SCORE - 2 * k + 1 => info[1].mate_in = SomeDist(k)
        /\ \A k \in 0..(MATE_WINDOW \div 2) :
              score = -MATE_SCORE + 2 * k => info[1].mated_in = SomeDist(k)
        /\ info[1].mate_in.some <=> score >= MATE_SCORE - MATE_WINDOW
        /\ info[1].mated_in.some <=> score <= -MATE_SCORE + MATE_WINDOW
        /\ ~(info[1].mate_in.some /\ info[1].mated_in.some)

\* The farthest mate of the window was decoded: mate in 500.
C16_Witness ==
    /\ pc = "decoded"
    /\ score = MATE_SCORE - MATE_WINDOW + 1
    /\ info[1].mate_in = SomeDist(MATE_WINDOW \div 2)
    /\ info[1].mated_in = NoDist

\* The score of a checkmated root was decoded: mated in 0.
C16_WitnessMated ==
    /\ pc = "decoded"
    /\ score = -MATE_SCORE
    /\ info[1].mated_in = SomeDist(0)

\* rec is the info record of the iteration that stands after its call of
\* alphabeta: its depth, the node count, the PV, and one score element, a
\* mate distance in moves (negative when the side to move is being mated) for
\* a score in a mate window and the score in centipawns otherwise.
InfoRecordOf(rec) ==
    /\ rec.depth = depth
    /\ rec.nodes = nodes_count
    /\ rec.pv = pv_line
    /\ IF score >= MATE_SCORE - MATE_WINDOW
       THEN rec.score = [kind |-> "ScoreMate", value |-> (MATE_SCORE - score + 1) \div 2]
       ELSE IF score <= -MATE_SCORE + MATE_WINDOW
       THEN /\ rec.score = [kind |-> "ScoreMate", value |-> -((MATE_SCORE + score) \div 2)]
            /\ rec.score.value < 0
       ELSE rec.score = [kind |-> "Score", value |-> score]

\* The step of run that follows the call of alphabeta sends exactly one
\* record, the one of the iteration.
OneInfoSent ==
    /\ Len(info') = Len(info) + 1
    /\ SubSeq(info', 1, Len(info)) = info
    /\ InfoRecordOf(info'[Len(info')])

\* run takes the step that follows its call of alphabeta.
AfterAlphabetaStep == pc = "after_alphabeta" /\ pc' # pc

\* The iteration is discarded because of cancellation.
Discarded == depth > 1 /\ stop_flag

\* The call of alphabeta found the root checkmated.
FoundCheckmated == LegalMoves(board) = {} /\ RefInCheck(board) /\ ~observed

\* The records sent so far are those of depths 1, 2, ... in this order.
InfoInDepthOrder == \A i \in 1..Len(info) : info[i].depth = i

C14_FlagClearedOnReturn == pc = "finished" => ~stop_flag

\* ------------------------------------------------------------------------
\* Properties of captures (checked under Spec)
\* ------------------------------------------------------------------------
\* The square behind `to` as seen by the side of color: where the pawn taken
\* en passant stands.
SquareBehind(to, color) == IF color = White THEN to - 8 ELSE to + 8

\* The move m, applied to b, is a pawn capture onto the en passant target of b.
OntoEnPassantTarget(b, m) ==
    is_pawn(m.piece) /\ m.is_capture /\ m.to = b.en_passant_target_square

\* after is b with the piece victim of the opponent of color taken from the
\* square sq and nothing else of the opponent changed.
Removed(b, after, color, victim, sq) ==
    /\ victim # NoPiece
    /\ get_color(victim) = opposite(color)
    /\ sq \in b.pieces[victim]
    /\ after.pieces[victim] = b.pieces[victim] \ {sq}
    /\ \A p \in PieceIdx : (get_color(p) = opposite(color) /\ p # victim) =>
          after.pieces[p] = b.pieces[p]
    /\ after.all[opposite(color)] = b.all[opposite(color)] \ {sq}
    /\ sq \in b.all[opposite(color)]

\* C21: a pawn capture onto the en passant target removes the opposing pawn
\* standing one rank behind the destination (seen from the mover) from its
\* piece bitboard, from the opponent's occupancy and from occupied, leaves the
\* capturing pawn alone on the destination and clears the en passant target;
\* every other capture removes the opposing piece standing on the destination.
C21_CaptureRemoval ==
    (Tried /\ mv.is_capture) =>
        LET color == get_color(mv.piece)
        IN  IF OntoEnPassantTarget(board, mv)
            THEN /\ Removed(board, board_copy, color, get_pawn_of(opposite(color)),
                            SquareBehind(mv.to, color))
                 /\ SquareBehind(mv.to, color) \notin board_copy.occupied
                 /\ PiecesOn(board_copy, mv.to) = {mv.piece}
                 /\ mv.to \in board_copy.occupied
                 /\ mv.to \in board_copy.all[color]
                 /\ board_copy.en_passant_target_square = NoSquare
            ELSE /\ Removed(board, board_copy, color, PieceOn(board, mv.to), mv.to)
                 /\ PiecesOn(board_copy, mv.to)
                       = {IF mv.promotion # NoPiece THEN mv.promotion ELSE mv.piece}
                 /\ mv.to \in board_copy.occupied

\* An en passant capture was applied to a position whose target was set by a
\* double push made in the tree: the pushed pawn is gone, the destination was
\* empty before.
C21_Witness ==
    /\ Tried /\ ply >= 1
    /\ OntoEnPassantTarget(board, mv)
    /\ PieceOn(board, mv.to) = NoPiece
    /\ PieceOn(board, SquareBehind(mv.to, get_color(mv.piece))) = get_pawn_of(opposite(get_color(mv.piece)))
    /\ PieceOn(board_copy, SquareBehind(mv.to, get_color(mv.piece))) = NoPiece

\* A pawn capture of a piece standing on the destination that is also a
\* promotion was tried.
C21_WitnessOrdinary ==
    /\ Tried /\ mv.is_capture
    /\ is_pawn(mv.piece)
    /\ ~OntoEnPassantTarget(board, mv)
    /\ mv.promotion # NoPiece

\* ------------------------------------------------------------------------
\* Properties of the FEN round trip (checked under Spec)
\* ------------------------------------------------------------------------
\* "rnbqkbnr/pppppppp/8/8/8/8/PPPPPPPP/RNBQKBNR w KQkq - 0 1" (fen.rs,
\* START_POSITION), character by character.
START_POSITION ==
    <<"r", "n", "b", "q", "k", "b", "n", "r", "/", "p", "p", "p", "p", "p", "p", "p", "p", "/",
      "8", "/", "8", "/", "8", "/", "8", "/",
      "P", "P", "P", "P", "P", "P", "P", "P", "/", "R", "N", "B", "Q", "K", "B", "N", "R",
      " ", "w", " ", "K", "Q", "k", "q", " ", "-", " ", "0", " ", "1">>

\* The fields of the board that from_fen reads back from the text as_fen
\* wrote, leaving the clocks aside.
SameButClocks(a, b) ==
    /\ a.pieces = b.pieces
    /\ a.all = b.all
    /\ a.occupied = b.occupied
    /\ a.side_to_move = b.side_to_move
    /\ a.castling_ability = b.castling_ability
    /\ a.en_passant_target_square = b.en_passant_target_square

\* as_fen(b) returns and from_fen gives back b, clocks included.
RoundTrips(b) ==
    /\ ~as_fen_panics(b)
    /\ ~from_fen_panics(as_fen(b))
    /\ from_fen(as_fen(b)) = b

\* C22: from_fen(as_fen(P)) = P for every position P of the move tree: the
\* serialization succeeds for any subset of the castling rights, with or
\* without en passant target, for either side to move, and parsing its result
\* gives back equal pieces, side to move, castling rights, en passant target
\* and clocks.
C22_FenRoundTrip == mv = NoMove => RoundTrips(board)

\* What the codec does give back: when the side holds all four castling
\* rights or none, as_fen returns and every field but the clocks is read
\* back; the text of the initial position is START_POSITION.
FenRoundTripButClocks ==
    mv = NoMove =>
        /\ as_fen_panics(board) <=>
              Rights(board.castling_ability) \notin {{}, {0, 1, 2, 3}}
        /\ ~as_fen_panics(board) =>
              /\ ~from_fen_panics(as_fen(board))
              /\ SameButClocks(from_fen(as_fen(board)), board)
        /\ board = initial_board =>
              (as_fen(board) = START_POSITION /\ from_fen(START_POSITION) = board)

\* A position holding only some of the castling rights is serialized.
PartialRightsSerialized ==
    /\ mv = NoMove
    /\ Rights(board.castling_ability) \notin {{}, {0, 1, 2, 3}}
    /\ as_fen_panics(board)

\* ------------------------------------------------------------------------
\* Properties of new_move (checked under Spec)
\* ------------------------------------------------------------------------
\* The promotion a move from `from` to `to` of the piece `piece` must carry
\* when none is chosen: a queen for a pawn reaching its last rank.
RefPromotion(piece, to) ==
    IF is_pawn(piece) /\ get_rank(to) = (IF get_color(piece) = White THEN 7 ELSE 0)
    THEN get_queen_of(get_color(piece))
    ELSE NoPiece

\* C23: for every legal move of the position, new_move(from, to) has the
\* moving piece and the capture flag of the generated move (also for en
\* passant captures), a queen promotion of the mover's colour when a pawn
\* reaches its last rank and no promotion otherwise (also for another piece
\* moving to the last rank), so that applying it gives the position the
\* generated move gives (the generated queen promotion for a promoting pawn).
C23_NewMove ==
    Accepted =>
        LET built == new_move(board, mv.from, mv.to)
        IN  /\ built.from = mv.from /\ built.to = mv.to
            /\ built.piece = mv.piece
            /\ built.is_capture = mv.is_capture
            /\ built.promotion = RefPromotion(mv.piece, mv.to)
            /\ mv.promotion = RefPromotion(mv.piece, mv.to) =>
                  update_by_move(board, built) = board_copy

\* What new_move does build for a legal move: the piece on `from`, the capture
\* flag of the generated move unless that move is an en passant capture, and
\* a queen promotion for every piece that reaches the last rank of its colour.
NewMoveBuilds ==
    Accepted =>
        LET built == new_move(board, mv.from, mv.to)
        IN  /\ built.piece = mv.piece
            /\ built.is_capture = (mv.is_capture /\ ~RefIsEnPassant(board, mv))
            /\ built.promotion =
                  (IF get_rank(mv.to) = (IF get_color(mv.piece) = White THEN 7 ELSE 0)
                   THEN get_queen_of(get_color(mv.piece)) ELSE NoPiece)
            /\ (built.promotion = mv.promotion /\ ~RefIsEnPassant(board, mv)) =>
                  update_by_move(board, built) = board_copy

\* new_move gives a piece that is no pawn a promotion.
NewMovePromotesPiece ==
    /\ Accepted
    /\ ~is_pawn(mv.piece)
    /\ new_move(board, mv.from, mv.to).promotion # NoPiece

\* new_move builds an en passant capture without the capture flag.
NewMoveEnPassantQuiet ==
    /\ Accepted
    /\ RefIsEnPassant(board, mv)
    /\ ~new_move(board, mv.from, mv.to).is_capture

\* ------------------------------------------------------------------------
\* Properties of the attack detection (checked under Spec)
\* ------------------------------------------------------------------------
\* In the position b, attacks_king(c) is attacks_to(square of the king of c)
\* restricted to the pieces of the other colour, and both are the squares from
\* which a piece of the other colour attacks that king by the rules.
AttacksAgree(b, c) ==
    LET king_square == get_index(KingSquares(b, c))
    IN  /\ attacks_king(b, c) = BitAnd(attacks_to(b, king_square), b.all[opposite(c)])
        /\ attacks_king(b, c) = RefAttackers(b, king_square, opposite(c))

\* C24: in every position with one king of each colour, for both colours c,
\* attacks_king(c) = attacks_to(square of c's king) & all[opposite(c)], and
\* in_check() is true iff attacks_king(side_to_move) is non-empty (iff a
\* piece of the opponent attacks the king of the side to move); checked in
\* the positions of the tree and in the clones copy_with_move rejects, where
\* the king of the side that moved is attacked.
C24_AttacksAgree ==
    /\ mv = NoMove =>
          /\ \A c \in {White, Black} : AttacksAgree(board, c)
          /\ in_check(board) <=> attacks_king(board, board.side_to_move) # EMPTY
          /\ in_check(board) <=> (RefAttackers(board, get_index(KingSquares(board, board.side_to_move)), opposite(board.side_to_move)) # {})
    /\ Rejected =>
          /\ \A c \in {White, Black} : AttacksAgree(board_copy, c)
          /\ in_check(board_copy) <=> attacks_king(board_copy, board_copy.side_to_move) # EMPTY

\* The side to move is in check after a move made in the tree, and attacks_to
\* of its king's square also holds a piece of its own colour.
C24_Witness ==
    /\ mv = NoMove /\ ply >= 1
    /\ in_check(board)
    /\ attacks_to(board, get_index(KingSquares(board, board.side_to_move)))
          \ board.all[opposite(board.side_to_move)] # {}

\* A pawn attacks the king of the side that moved in a clone that
\* copy_with_move rejects.
C24_WitnessPawn ==
    /\ Rejected
    /\ \E sq \in attacks_king(board_copy, get_color(mv.piece)) :
          is_pawn(PieceOn(board_copy, sq))

\* ========================================================================
\* Properties of the sliding attacks (checked under AttackSpec)
\* ========================================================================
\* The squares reached from s by stepping (df, dr) at a time over the board,
\* up to and including the first square of occ.
RefRay(occ, s, df, dr) ==
    {t \in Squares :
        \E k \in 1..7 :
            /\ get_file(t) = get_file(s) + k * df
            /\ get_rank(t) = get_rank(s) + k * dr
            /\ \A j \in 1..(k - 1) : Square_new(get_rank(s) + j * dr, get_file(s) + j * df) \notin occ}

RefRookScan(occ, s) ==
    RefRay(occ, s, 1, 0) \cup RefRay(occ, s, -1, 0) \cup RefRay(occ, s, 0, 1) \cup RefRay(occ, s, 0, -1)
RefBishopScan(occ, s) ==
    RefRay(occ, s, 1, 1) \cup RefRay(occ, s, -1, -1) \cup RefRay(occ, s, 1, -1) \cup RefRay(occ, s, -1, 1)

\* The A-file and H-file squares of the rank of s.
RankEnds(s) == {Square_new(get_rank(s), 0), Square_new(get_rank(s), 7)}

Slid == attack_bbs # <<>> /\ attack_bbs[1].kind = "sliding"

\* C25: the rook attacks are the scan along the file and the rank up to and
\* including the first occupied square each way, the bishop attacks the same
\* scan along the two diagonals; the square itself is never in the result,
\* and the rank part is the same whatever stands on the A and H files.
C25_SlidingScan ==
    Slid =>
        /\ attack_bbs[1].rook = RefRookScan(attack_occ, attack_sq)
        /\ attack_bbs[1].bishop = RefBishopScan(attack_occ, attack_sq)
        /\ attack_sq \notin attack_bbs[1].rook \cup attack_bbs[1].bishop
        /\ attack_bbs[1].rank = RefRay(attack_occ, attack_sq, 1, 0) \cup RefRay(attack_occ, attack_sq, -1, 0)
        /\ attack_bbs[1].rank = rank_attacks(attack_occ \cup RankEnds(attack_sq), attack_sq)
        /\ attack_bbs[1].rank = rank_attacks(attack_occ \ RankEnds(attack_sq), attack_sq)

\* Two blockers on one side of a rook: the nearer one is attacked, the
\* farther one, on the A file, is not.
C25_Witness ==
    /\ Slid
    /\ get_file(attack_sq) = 2
    /\ attack_occ = {attack_sq - 1, attack_sq - 2}
    /\ attack_sq - 1 \in attack_bbs[1].rook
    /\ attack_sq - 2 \notin attack_bbs[1].rook
    /\ attack_sq + 5 \in attack_bbs[1].rook

\* A bishop on d4 whose diagonal is blocked on e5 while every square off its
\* diagonals is occupied.
C25_WitnessBishop ==
    /\ Slid
    /\ attack_sq = 27
    /\ 36 \in attack_occ
    /\ 28 \in attack_occ
    /\ 45 \notin attack_bbs[1].bishop
    /\ 36 \in attack_bbs[1].bishop
    /\ 18 \in attack_bbs[1].bishop

\* ========================================================================
\* Properties of the non-sliding attacks (checked under AttackSpec)
\* ========================================================================
RefKingNeighbours(s) == {t \in Squares \ {s} : FileDist(s, t) <= 1 /\ RankDist(s, t) <= 1}
RefKnightJumps(s) == {t \in Squares : {FileDist(s, t), RankDist(s, t)} = {1, 2}}
RefPawnNeighbours(s, up) == {t \in Squares : FileDist(s, t) = 1 /\ get_rank(t) = get_rank(s) + up}

NonSlid == attack_bbs # <<>> /\ attack_bbs[1].kind = "non_sliding"

\* C26: for one square the king, knight and pawn attack sets are exactly the
\* neighbours that exist on the board (nothing wraps around an edge), and for
\* a set of squares each is the union of the attack sets of its members.
C26_NoWrap ==
    NonSlid =>
        /\ attack_bbs[1].king = RefKingNeighbours(attack_sq)
        /\ attack_bbs[1].knight = RefKnightJumps(attack_sq)
        /\ attack_bbs[1].white_pawn = RefPawnNeighbours(attack_sq, 1)
        /\ attack_bbs[1].black_pawn = RefPawnNeighbours(attack_sq, -1)
        /\ attack_bbs[1].kings = UNION {get_king_attacks({s}) : s \in attack_occ}
        /\ attack_bbs[1].knights = UNION {get_knight_attacks({s}) : s \in attack_occ}
        /\ attack_bbs[1].white_pawns = UNION {get_white_pawn_attacks({s}) : s \in attack_occ}
        /\ attack_bbs[1].black_pawns = UNION {get_black_pawn_attacks({s}) : s \in attack_occ}

\* A piece on the G file, where a shift by 10 or by -6 would land on the A
\* file, and a set of two pieces standing on the two edge files.
C26_Witness ==
    /\ NonSlid
    /\ get_file(attack_sq) = 6
    /\ get_rank(attack_sq) \in 2..5
    /\ Cardinality(attack_bbs[1].knight) = 6
    /\ attack_sq + 10 \notin attack_bbs[1].knight
    /\ Cardinality(attack_occ) = 2
    /\ {get_file(s) : s \in attack_occ} = {0, 7}
    /\ Cardinality(attack_bbs[1].kings) = 10

\* ========================================================================
\* Properties of the pruning (checked under PruneSpec)
\* ========================================================================
MaxOf(S) == CHOOSE x \in S : \A y \in S : y <= x

\* Exhaustive negamax: every legal move of every node is searched, with the
\* leaf evaluation and the mate scoring of alphabeta.
RECURSIVE RefNegamax(_, _, _)
RefNegamax(b, d, mate) ==
    IF d = 0 THEN eval(b)
    ELSE LET kids == Children(b)
         IN  IF kids = {} THEN (IF RefInCheck(b) THEN -mate ELSE 0)
             ELSE MaxOf({-RefNegamax(k, d - 1, mate - 1) : k \in kids})

\* Nodes of the exhaustive tree below b, as nodes_count would count them.
RECURSIVE RefNodes(_, _)
RefNodes(b, d) ==
    IF d = 0 THEN 0
    ELSE LET moves == generate_moves(b)
             legal == {m \in 1..Len(moves) : copy_with_move(b, moves[m]) # NoBoard}
             count[S \in SUBSET legal] ==
                 IF S = {} THEN 0
                 ELSE LET m == CHOOSE x \in S : TRUE
                      IN  1 + RefNodes(copy_with_move(b, moves[m]), d - 1) + count[S \ {m}]
         IN  count[legal]

Pruned == pc = "pruned"

\* C27: with the full window and no cancellation alphabeta returns the
\* exhaustive negamax value of the root, its PV has at most depth moves, and
\* the first PV move is a legal root move whose subtree has that value.
C27_PruningSound ==
    Pruned =>
        /\ score = RefNegamax(board, depth, MATE_SCORE)
        /\ Len(pv_line) <= depth
        /\ (Children(board) # {}) => pv_line # <<>>
        /\ pv_line # <<>> =>
              /\ \E i \in 1..Len(generate_moves(board)) : generate_moves(board)[i] = pv_line[1]
              /\ copy_with_move(board, pv_line[1]) # NoBoard
              /\ -RefNegamax(copy_with_move(board, pv_line[1]), depth - 1, MATE_SCORE - 1) = score

\* A search of depth 2 that cut off: it visited fewer nodes than the
\* exhaustive tree holds, and its PV is two moves long.
C27_Witness ==
    /\ Pruned
    /\ depth = 2
    /\ Len(pv_line) = 2
    /\ nodes_count < RefNodes(board, depth)

\* ========================================================================
\* Properties of the stop flag protocol
\* ========================================================================
\* The BestMove events that thread i sent.
EventsOf(i) == {e \in DOMAIN best_moves : best_moves[e] = i}

\* C28 (checked under ThreadsFairSpec): every search thread that start_search
\* spawned sends one BestMove event in the end and never more than one,
\* whenever stop_search is called.
C28_OneBestMovePerSearch ==
    \A i \in 1..MaxCommands :
        /\ [](Cardinality(EventsOf(i)) <= 1)
        /\ [](i \in DOMAIN threads => <>(Cardinality(EventsOf(i)) = 1))

\* The k-th command is a go handled when every search thread had ended, and
\* an earlier command was a stop handled when every search thread had ended.
GoAfterIdleStop(k) ==
    /\ Len(commands) >= k
    /\ commands[k].cmd = "go"
    /\ commands[k].live = 0
    /\ \E j \in 1..(k - 1) : commands[j].cmd = "stop" /\ commands[j].live = 0

\* The k-th command spawned a thread and its BestMove event is on the channel.
BestMoveSentFor(k) ==
    /\ Len(commands) >= k
    /\ commands[k].thread # 0
    /\ threads[commands[k].thread] \in {"sent", "done"}

\* C29 (checked under ThreadsFairSpec): a stop_search handled while no search
\* is running has no lasting effect, a later start_search spawns a search
\* thread and its BestMove event is eventually sent.
C29_IdleStopHarmless ==
    \A k \in 2..MaxCommands : [](GoAfterIdleStop(k) => <>BestMoveSentFor(k))

\* C30 (checked under ThreadsSpec): at most one search thread is searching at
\* a time, and a start_search handled while a search is running spawns no
\* thread.
C30_OneSearchThread ==
    /\ Cardinality(Searching(threads)) <= 1
    /\ \A k \in DOMAIN commands :
          (commands[k].cmd = "go" /\ commands[k].searching >= 1) => commands[k].thread = 0

====
